---- MODULE Spec2Model ----
(***************************************************************************)
(* Model of tools/voice-type/voice-type.py: the push-to-talk session       *)
(* orchestration (Recorder, StreamingTranscriber, the hotkey worker with   *)
(* its finalize tasks, and the overlay command queue with its consumer).   *)
(*                                                                         *)
(* Threads of the program and their modelled steps:                        *)
(*   audio callback   CbCheck, CbAppend*         (Recorder._callback)     *)
(*   hotkey worker    Hk*                          (run.hotkey_worker)     *)
(*   preview loops    Lp*   one per streamer.start()                       *)
(*   finalize tasks   Fin*  one per spawned _finish                        *)
(*   UI thread        UiPoll                       (Overlay._poll)         *)
(*   tray thread      ToggleEnabled                (TrayIcon callbacks)    *)
(*   model loaders    LoadFinalModel, LoadStreamModel                      *)
(* A step is one access to shared state together with the thread-local     *)
(* code around it.  Recorder.start/stop/peek run under Recorder._lock and  *)
(* are single steps; Recorder._callback takes no lock and is two steps.    *)
(***************************************************************************)
EXTENDS Integers, Sequences, FiniteSets, TLC

----------------------------------------------------------------------------
(* Bounds of the model *)

\* armed down-edges (recorder.start() calls) explored
MaxSessions == 2
\* finalize tasks (_finish threads) explored
MaxFinal == 2
\* hardware blocks the callback delivers while armed
MaxBlocks == 3
\* preview model calls explored over all preview loops
MaxPasses == 2
\* loader threads explored: the two hotkey_worker starts and the ones the
\* tray's model switches start
MaxLoaders == 3
\* model names the tray's menus offer
MaxNames == 2

----------------------------------------------------------------------------
(* Program constants *)

SAMPLE_RATE == 16000
\* STREAM_MIN_AUDIO = 0.8 s and the 0.3 s floor of transcribe, in tenths of a
\* second, so that the comparisons stay in integers.
STREAM_MIN_AUDIO_TENTHS == 8
MIN_FINAL_TENTHS == 3
\* Frames per modelled callback block.  The stream is opened with
\* blocksize=256 (16 ms); one modelled block stands for 25 consecutive
\* hardware blocks (0.4 s), so that 0.3 s and 0.8 s are crossed after one and
\* two blocks instead of 19 and 50.
BLOCK_FRAMES == 6400
MAX_PREVIEW_CHARS == 58

Sessions == 1..MaxSessions
FinIds == 1..MaxFinal

----------------------------------------------------------------------------
(* Audio arrays.  An array is a sequence of runs; a run is the frames of    *)
(* one delivered block: [id, era, n], id the block's number, era the number *)
(* of Recorder.start() calls made when its callback was invoked, n its      *)
(* frame count.                                                             *)

EmptyArray == << >>

\* indata.copy(): the block the callback appends, an array of one run
Block(id, era) == << [id |-> id, era |-> era, n |-> BLOCK_FRAMES] >>

\* what stands for the ValueError np.concatenate raises on an empty list
ValueError == << [id |-> 0, era |-> 0, n |-> 0] >>

RECURSIVE JoinRev(_)
JoinRev(fr) == IF fr = << >> THEN EmptyArray ELSE JoinRev(Tail(fr)) \o Head(fr)

RECURSIVE Join(_)
Join(fr) == IF fr = << >> THEN EmptyArray ELSE Head(fr) \o Join(Tail(fr))

\* a slip of concatenation order: the frames list joined back to front
ConcatRev(fr) == IF fr = << >> THEN ValueError ELSE JoinRev(fr)

\* np.concatenate(self._frames, axis=0).flatten(); frames is a list of blocks,
\* each block an array of one run; an empty list raises
Concatenate(fr) == IF fr = << >> THEN ValueError ELSE Join(fr)

RECURSIVE ArrayLen(_)
\* len(audio)
ArrayLen(a) == IF a = << >> THEN 0 ELSE Head(a).n + ArrayLen(Tail(a))

IsPrefix(s, t) == Len(s) <= Len(t) /\ SubSeq(t, 1, Len(s)) = s

\* Recorder.peek(): value returned for a frames list
PeekValue(fr) == IF fr = << >> THEN EmptyArray ELSE Concatenate(fr)

\* Recorder.stop() without its guard for an empty frames list
StopNoGuard(fr) == Concatenate(fr)

\* Recorder.stop(): value returned for a frames list
StopValue(fr) == IF fr = << >> THEN EmptyArray ELSE Concatenate(fr)

\* The samples of a block are not told apart: a block has one level, in
\* hundredths of full scale, here a function of the block's number so that
\* loud and silent blocks both occur.
Amp(r) == r.id % 3

RECURSIVE SumSq(_)
\* np.sum(audio ** 2)
SumSq(a) == IF a = << >> THEN 0 ELSE Head(a).n * Amp(Head(a)) * Amp(Head(a)) + SumSq(Tail(a))

\* the integer part of np.sqrt(x)
ISqrt(x) == CHOOSE k \in 0 .. x : k * k <= x /\ (k + 1) * (k + 1) > x

\* self._frames[-2:]
LastTwo(fr) == IF Len(fr) <= 2 THEN fr ELSE SubSeq(fr, Len(fr) - 1, Len(fr))

\* what stands for an exception leaving get_rms
RmsRaised == 0 - 1

\* Recorder.get_rms() without its guard for an empty frames list
GetRmsNoGuard(fr) ==
  LET recent == Concatenate(LastTwo(fr)) IN
  IF recent = ValueError THEN RmsRaised
  ELSE IF ArrayLen(recent) = 0 THEN 0
  ELSE ISqrt(SumSq(recent) \div ArrayLen(recent))

\* Recorder.get_rms(): value returned for a frames list
GetRms(fr) ==
  IF fr = << >> THEN 0
  ELSE LET recent == Concatenate(LastTwo(fr)) IN
       IF ArrayLen(recent) = 0 THEN 0
       ELSE ISqrt(SumSq(recent) \div ArrayLen(recent))

\* transcribe() without its floor: no audio is too short for the model
FinalNeverShort(a) == FALSE

\* transcribe(): duration = len(audio) / SAMPLE_RATE; duration < 0.3
TooShortForFinal(a) == ArrayLen(a) * 10 < MIN_FINAL_TENTHS * SAMPLE_RATE

\* the threshold of _loop with > in place of >=
LongEnoughStrict(a) == ArrayLen(a) * 10 > SAMPLE_RATE * STREAM_MIN_AUDIO_TENTHS

\* _loop: len(audio) >= SAMPLE_RATE * STREAM_MIN_AUDIO
LongEnoughForPreview(a) == ArrayLen(a) * 10 >= SAMPLE_RATE * STREAM_MIN_AUDIO_TENTHS

----------------------------------------------------------------------------
(* Texts.  A text is the sequence of its words, a word is its length; ""    *)
(* is the empty sequence.  In what a model returns, a run of whitespace is  *)
(* the token 0.                                                             *)

EmptyText == << >>
\* what the preview model may return for a snapshot
PreviewTexts == { << >>, <<30, 30, 30>> }
\* what the final model may return: the texts of its segments (none; one of
\* whitespace only; one word with whitespace around it)
FinalSegments == { << >>, << <<0>> >>, << <<0, 5, 0>> >> }

IsWord(w) == w > 0

\* s.strip(), and the words of what is left
Strip(seg) == SelectSeq(seg, IsWord)

RECURSIVE JoinNoStrip(_)
\* the segment texts joined as the model returned them
JoinNoStrip(segs) == IF segs = << >> THEN EmptyText ELSE Head(segs) \o JoinNoStrip(Tail(segs))

RECURSIVE JoinStrip(_)
\* " ".join(seg.text.strip() for seg in segments).strip()
JoinStrip(segs) == IF segs = << >> THEN EmptyText ELSE Strip(Head(segs)) \o JoinStrip(Tail(segs))

RECURSIVE SumLen(_)
SumLen(l) == IF l = << >> THEN 0 ELSE Head(l) + SumLen(Tail(l))

\* len(current): the words of a line joined by single spaces
LineLen(line) == IF line = << >> THEN 0 ELSE SumLen(line) + (Len(line) - 1)

RECURSIVE WrapLines(_, _, _)
\* the for-loop of _wrap_preview: lines so far, current line, words left
WrapLines(lines, current, words) ==
  IF words = << >>
  THEN IF current # << >> THEN Append(lines, current) ELSE lines
  ELSE LET w == Head(words) IN
       IF current # << >> /\ LineLen(current) + 1 + w > MAX_PREVIEW_CHARS
       THEN WrapLines(Append(lines, current), <<w>>, Tail(words))
       ELSE WrapLines(lines, Append(current, w), Tail(words))

\* _wrap_preview(text): the last two wrapped lines, with a leading ellipsis
\* when earlier lines were cut.  "" is [ellipsis |-> FALSE, lines |-> <<>>].
EmptyPreview == [ellipsis |-> FALSE, lines |-> << >>]
WrapPreview(text) ==
  IF text = << >> THEN EmptyPreview
  ELSE LET lines == WrapLines(<< >>, << >>, text) IN
       IF lines = << >> THEN EmptyPreview
       ELSE [ellipsis |-> Len(lines) > 2,
             lines |-> IF Len(lines) > 2
                       THEN SubSeq(lines, Len(lines) - 1, Len(lines))
                       ELSE lines]

----------------------------------------------------------------------------
(* State *)

VARIABLES
  enabled,       \* TrayIcon.enabled
  tray_icon,     \* the state the tray icon shows (TrayIcon._icon.icon/title)
  hk_pc,         \* hotkey worker: where it is in one iteration of its loop
  is_down,       \* hotkey worker local is_down
  was_down,      \* hotkey worker local was_down
  hk_audio,      \* hotkey worker local audio (result of recorder.stop())
  hk_sess,       \* history: the session the up-edge being handled ends (0: none)
  frames,        \* Recorder._frames: list of blocks
  recording,     \* Recorder._recording
  gen,           \* history: number of Recorder.start() calls (identity of the list)
  appended,      \* history: blocks appended to the list since the last start()
  open,          \* history: the session armed and not yet ended (0: none)
  nblocks,       \* history: blocks delivered while armed
  cb_pc,         \* audio callback: position in _callback
  cb_block,      \* audio callback: indata.copy()
  active,        \* StreamingTranscriber._active
  last_text,     \* StreamingTranscriber._last_text
  last_text_gen, \* history: gen of the snapshot _last_text was transcribed from (0: none)
  lp_pc,         \* preview loop i: position in _loop
  lp_audio,      \* preview loop i: local audio (snapshot)
  lp_snap_gen,   \* history: gen when the snapshot was taken
  lp_text,       \* preview loop i: local text
  npass,         \* history: preview model calls made
  lp_pub,        \* history: previews the loops have put on the queue, in order, by the
                 \* session (gen) of the snapshot they were transcribed from
  stopped,       \* history: streamer.stop() has returned for session s
  fin_pc,        \* finalize task j: position in _finish
  fin_audio,     \* finalize task j: audio
  fin_preview,   \* finalize task j: preview
  fin_text,      \* finalize task j: text
  fin_handle,    \* finalize task j: transcribe's local model, what get_model() returned
                 \* (unset, model, None)
  fin_sess,      \* history: the session task j finalizes (0: none)
  fin_cmds,      \* history: the commands task j has put on the queue, in order
  fin_outcome,   \* history: how task j's transcribe ended: none, short, text, empty, raised
  nfin,          \* history: finalize tasks spawned
  injected,      \* history: texts passed to _send_text_input, in order
  queue,         \* Overlay._cmd_queue
  ov_state,      \* Overlay._state
  ov_visible,    \* Overlay._visible
  ov_label,      \* Overlay._preview: [text, packed]
  ui_rank,       \* history: rank of the last command applied for session s
  ui_raw,        \* Overlay._animate: raw = self._get_level(), with the history of the
                 \* call: whether one was made, the length of _frames and gen at the call
  model_loaded,  \* _model is not None
  stream_loaded, \* _stream_model is not None
  load_failed,   \* history: the loader thread's get_model() raised
  run_pc,        \* main thread: position in run()
  model_lock,    \* _model_lock: the thread that holds it
  stream_lock,   \* _stream_model_lock: the thread that holds it
  ld_kind,       \* loader thread k: its target (final: get_model, stream: _load_stream_model)
  ld_pc,         \* loader thread k: position in get_model / _load_stream_model
  nld,           \* history: loader threads started
  sw_pc,         \* tray thread: position in _set_final_model / _set_stream_model
  final_setting, \* _settings["final_model"]
  stream_setting,\* _settings["stream_model"]
  model_name,    \* the name _model was built from (0: _model is None)
  stream_name,   \* the name _stream_model was built from (0: None)
  final_local,   \* get_model's local name, in the thread inside the locked block
  stream_local,  \* _load_stream_model's local name, likewise
  sw_call,       \* history: the last menu call, its slot, its name, whether it returned early
  lk_owner,      \* the locks' skeleton: the thread that holds each lock of the program
  lk_prog        \* the locks' skeleton: thread t's lock operations still to do in the
                 \* function it is in

trayv == <<enabled, tray_icon>>
hkv   == <<hk_pc, is_down, was_down, hk_audio, hk_sess>>
recv  == <<frames, recording, gen, appended, open>>
cbv   == <<nblocks, cb_pc, cb_block>>
strv  == <<active, last_text, last_text_gen>>
lpv   == <<lp_pc, lp_audio, lp_snap_gen, lp_text, npass, lp_pub>>
finv  == <<fin_pc, fin_audio, fin_preview, fin_text, fin_handle, fin_sess, fin_cmds, fin_outcome, nfin, injected>>
uiv   == <<ov_state, ov_visible, ov_label, ui_rank, ui_raw>>
lkv   == <<lk_owner, lk_prog>>
lockv == <<model_lock, stream_lock, ld_kind, ld_pc, nld, sw_pc, lkv>>
namev == <<final_setting, stream_setting, model_name, stream_name, final_local, stream_local, sw_call>>
modv  == <<model_loaded, stream_loaded, load_failed, run_pc, lockv, namev>>

vars == <<trayv, hkv, recv, cbv, strv, lpv, finv, uiv, modv, stopped, queue>>

Loaders == 1 .. MaxLoaders

\* the model names on the tray's menus, numbered; 1 is the one in the
\* settings at the start
ModelNames == 1 .. MaxNames

\* the locks of the program: Recorder._lock, _model_lock,
\* _stream_model_lock, _log_lock
LockNames == {"rec", "model", "stream", "log"}

\* the threads of the program, one of each kind
LkThreads == {"hotkey", "audio", "loop", "fin", "loader", "tray", "ui"}

\* a thread of the program, and the value of a lock nobody holds
Thread(kind, id) == [kind |-> kind, id |-> id]
NoThread == Thread("none", 0)

\* A command on the overlay queue: (cmd, preview), with the session it is
\* published for, the kind of thread that put it, and whether streamer.stop()
\* had already returned for that session when it was put.
Cmd(cmd, preview, s, src, late) ==
  [cmd |-> cmd, preview |-> preview, sess |-> s, src |-> src, late |-> late]

\* rank of a command in hidden -> rec -> processing -> hidden
Rank(cmd) == CASE cmd = "rec" -> 1 [] cmd = "processing" -> 2 [] OTHER -> 3

\* TrayIcon.set_state: effective = "disabled" if not self.enabled else state
TrayEffective(state) == IF ~enabled THEN "disabled" ELSE state

\* the fields as the constructors and the module leave them
InitFields ==
  /\ enabled = TRUE /\ tray_icon = "idle"
  /\ is_down = FALSE /\ was_down = FALSE
  /\ hk_audio = EmptyArray /\ hk_sess = 0
  /\ frames = << >> /\ recording = FALSE /\ gen = 0 /\ appended = << >> /\ open = 0
  /\ nblocks = 0 /\ cb_block = EmptyArray
  /\ active = FALSE /\ last_text = EmptyText /\ last_text_gen = 0
  /\ lp_pc = [i \in Sessions |-> "none"]
  /\ lp_audio = [i \in Sessions |-> EmptyArray]
  /\ lp_snap_gen = [i \in Sessions |-> 0]
  /\ lp_text = [i \in Sessions |-> EmptyText]
  /\ npass = 0
  /\ lp_pub = [s \in Sessions |-> << >>]
  /\ stopped = [s \in Sessions |-> FALSE]
  /\ fin_pc = [j \in FinIds |-> "none"]
  /\ fin_audio = [j \in FinIds |-> EmptyArray]
  /\ fin_preview = [j \in FinIds |-> EmptyPreview]
  /\ fin_text = [j \in FinIds |-> EmptyText]
  /\ fin_handle = [j \in FinIds |-> "unset"]
  /\ fin_sess = [j \in FinIds |-> 0]
  /\ fin_cmds = [j \in FinIds |-> << >>]
  /\ fin_outcome = [j \in FinIds |-> "none"]
  /\ nfin = 0 /\ injected = << >>
  /\ queue = << >>
  /\ ov_state = "hidden" /\ ov_visible = FALSE
  /\ ov_label = [text |-> EmptyPreview, packed |-> FALSE]
  /\ ui_rank = [s \in Sessions |-> 0]
  /\ ui_raw = [rms |-> 0, called |-> FALSE, nframes |-> 0, gen |-> 0]
  /\ model_loaded = FALSE /\ stream_loaded = FALSE /\ load_failed = FALSE
  /\ model_lock = NoThread /\ stream_lock = NoThread
  /\ ld_kind = [k \in Loaders |-> IF k = 1 THEN "final" ELSE IF k = 2 THEN "stream" ELSE "none"]
  /\ ld_pc = [k \in Loaders |-> IF k <= 2 THEN "check" ELSE "none"]
  /\ nld = 2 /\ sw_pc = "idle"
  /\ final_setting = 1 /\ stream_setting = 1
  /\ model_name = 0 /\ stream_name = 0 /\ final_local = 0 /\ stream_local = 0
  /\ sw_call = [slot |-> "none", name |-> 0, same |-> FALSE]
  /\ lk_owner = [l \in LockNames |-> "none"]
  /\ lk_prog = [t \in LkThreads |-> << >>]

\* run() has built its objects and started the hotkey thread, and is in
\* overlay.mainloop(): the input stream is open, the worker polls the key
Init ==
  /\ InitFields
  /\ run_pc = "mainloop" /\ hk_pc = "poll" /\ cb_pc = "idle"

\* the process at the call of run(): no stream, no hotkey thread
InitStartup ==
  /\ InitFields
  /\ run_pc = "recorder" /\ hk_pc = "unstarted" /\ cb_pc = "nostream"

----------------------------------------------------------------------------
(* run() on the main thread, up to overlay.mainloop() *)

\* Recorder() fails without raising: run() goes on with no input stream
RunRecorderSwallows ==
  /\ run_pc = "recorder"
  /\ run_pc' = "construct"
  /\ UNCHANGED <<namev, lockv, model_loaded, stream_loaded, load_failed, trayv, hkv, recv, cbv, strv, lpv, finv, uiv, stopped, queue>>

\* recorder = Recorder(): sd.query_devices or sd.InputStream or its start()
\* raises; nothing in run() catches it
RunRecorderRaises ==
  /\ run_pc = "recorder"
  /\ run_pc' = "raised"
  /\ UNCHANGED <<namev, lockv, model_loaded, stream_loaded, load_failed, trayv, hkv, recv, cbv, strv, lpv, finv, uiv, stopped, queue>>

\* recorder = Recorder(): the device is found, the stream opened and started
RunRecorder ==
  /\ run_pc = "recorder"
  /\ cb_pc' = "idle"
  /\ run_pc' = "construct"
  /\ UNCHANGED <<namev, lockv, nblocks, cb_block, model_loaded, stream_loaded, load_failed, trayv, hkv, recv, strv, lpv, finv, uiv, stopped, queue>>

\* overlay = Overlay(...); streamer = StreamingTranscriber(...);
\* tray = TrayIcon(overlay); tray.start()
RunConstruct ==
  /\ run_pc = "construct"
  /\ run_pc' = "worker"
  /\ UNCHANGED <<namev, lockv, model_loaded, stream_loaded, load_failed, trayv, hkv, recv, cbv, strv, lpv, finv, uiv, stopped, queue>>

\* threading.Thread(target=hotkey_worker, daemon=True).start();
\* overlay.mainloop()
RunStartWorker ==
  /\ run_pc = "worker"
  /\ hk_pc' = "poll"
  /\ run_pc' = "mainloop"
  /\ UNCHANGED <<namev, lockv, is_down, was_down, hk_audio, hk_sess, model_loaded, stream_loaded, load_failed, trayv, recv, cbv, strv, lpv, finv, uiv, stopped, queue>>

Run == RunRecorder \/ RunRecorderRaises \/ RunConstruct \/ RunStartWorker

----------------------------------------------------------------------------
(* Tray thread *)

\* TrayIcon._toggle_enabled: flip the flag, then set_state("idle")
ToggleEnabled ==
  /\ enabled' = ~enabled
  /\ tray_icon' = IF ~enabled' THEN "disabled" ELSE "idle"
  /\ UNCHANGED <<hkv, recv, cbv, strv, lpv, finv, uiv, modv, stopped, queue>>

\* TrayIcon._on_exit: icon.stop(), then overlay.quit().  The menu goes with
\* the icon, so Exit is chosen at most once.
TrayExit ==
  /\ run_pc = "mainloop"
  /\ \A k \in DOMAIN queue : queue[k].cmd # "quit"
  /\ tray_icon' = "stopped"
  /\ queue' = Append(queue, Cmd("quit", EmptyPreview, 0, "tray", FALSE))
  /\ UNCHANGED <<enabled, hkv, recv, cbv, strv, lpv, finv, uiv, modv, stopped>>

----------------------------------------------------------------------------
(* Model loader threads started by hotkey_worker *)

\* get_model(): the first caller loads the final model under _model_lock
LoadFinalModel ==
  /\ hk_pc # "unstarted"
  /\ ~model_loaded
  /\ model_loaded' = TRUE
  /\ model_name' = final_setting
  /\ UNCHANGED <<final_setting, stream_setting, stream_name, final_local, stream_local, sw_call, lockv, stream_loaded, load_failed, run_pc, trayv, hkv, recv, cbv, strv, lpv, finv, uiv, stopped, queue>>

\* get_model() on the loader thread: WhisperModel(...) raises, the thread
\* ends and _model stays None
LoadFinalModelRaises ==
  /\ hk_pc # "unstarted"
  /\ ~model_loaded /\ ~load_failed
  /\ load_failed' = TRUE
  /\ UNCHANGED <<namev, lockv, model_loaded, stream_loaded, run_pc, trayv, hkv, recv, cbv, strv, lpv, finv, uiv, stopped, queue>>

\* _load_stream_model(): get_model() first, then the stream model
LoadStreamModel ==
  /\ hk_pc # "unstarted"
  /\ model_loaded /\ ~stream_loaded
  /\ stream_loaded' = TRUE
  /\ stream_name' = stream_setting
  /\ UNCHANGED <<final_setting, stream_setting, model_name, final_local, stream_local, sw_call, lockv, model_loaded, load_failed, run_pc, trayv, hkv, recv, cbv, strv, lpv, finv, uiv, stopped, queue>>

----------------------------------------------------------------------------
(* get_model, _load_stream_model and the tray's model switches, statement by
   statement, with _model_lock and _stream_model_lock *)

\* where loader k goes when its get_model() returns: a get_model thread
\* ends, _load_stream_model goes on to the stream model's lock
AfterGetModel(k) == IF ld_kind[k] = "stream" THEN "s_acquire" ELSE "done"

\* get_model(): if _model is None (the test outside the lock)
LdCheck(k) ==
  /\ hk_pc # "unstarted"
  /\ ld_pc[k] = "check"
  /\ ld_pc' = [ld_pc EXCEPT ![k] = IF model_loaded THEN AfterGetModel(k) ELSE "acquire"]
  /\ UNCHANGED <<namev, lkv, model_loaded, stream_loaded, load_failed, run_pc, model_lock, stream_lock, ld_kind, nld, sw_pc, trayv, hkv, recv, cbv, strv, lpv, finv, uiv, stopped, queue>>

\* get_model() that enters the locked block without taking the lock
LdAcquireNoWait(k) ==
  /\ ld_pc[k] = "acquire"
  /\ ld_pc' = [ld_pc EXCEPT ![k] = "check2"]
  /\ UNCHANGED <<namev, lkv, model_loaded, stream_loaded, load_failed, run_pc, model_lock, stream_lock, ld_kind, nld, sw_pc, trayv, hkv, recv, cbv, strv, lpv, finv, uiv, stopped, queue>>

\* with _model_lock: the thread waits until the lock is free and takes it
LdAcquire(k) ==
  /\ ld_pc[k] = "acquire"
  /\ model_lock = NoThread
  /\ model_lock' = Thread("loader", k)
  /\ ld_pc' = [ld_pc EXCEPT ![k] = "check2"]
  /\ UNCHANGED <<namev, lkv, model_loaded, stream_loaded, load_failed, run_pc, stream_lock, ld_kind, nld, sw_pc, trayv, hkv, recv, cbv, strv, lpv, finv, uiv, stopped, queue>>

\* if _model is None (the test inside the lock): loaded by another thread
\* in the meantime: leave the block; else start the load
LdCheck2(k) ==
  /\ ld_pc[k] = "check2"
  /\ IF model_loaded
     THEN /\ model_lock' = IF model_lock = Thread("loader", k) THEN NoThread ELSE model_lock
          /\ ld_pc' = [ld_pc EXCEPT ![k] = AfterGetModel(k)]
          /\ UNCHANGED final_local
     ELSE /\ ld_pc' = [ld_pc EXCEPT ![k] = "loading"]
          /\ final_local' = final_setting
          /\ UNCHANGED model_lock
  /\ UNCHANGED <<final_setting, stream_setting, model_name, stream_name, stream_local, sw_call, lkv, model_loaded, stream_loaded, load_failed, run_pc, stream_lock, ld_kind, nld, sw_pc, trayv, hkv, recv, cbv, strv, lpv, finv, uiv, stopped, queue>>

\* _model = WhisperModel(...) returns; the block ends and frees the lock
LdLoaded(k) ==
  /\ ld_pc[k] = "loading"
  /\ model_loaded' = TRUE
  /\ model_lock' = IF model_lock = Thread("loader", k) THEN NoThread ELSE model_lock
  /\ ld_pc' = [ld_pc EXCEPT ![k] = AfterGetModel(k)]
  /\ model_name' = final_local /\ final_local' = 0
  /\ UNCHANGED <<final_setting, stream_setting, stream_name, stream_local, sw_call, lkv, stream_loaded, load_failed, run_pc, stream_lock, ld_kind, nld, sw_pc, trayv, hkv, recv, cbv, strv, lpv, finv, uiv, stopped, queue>>

\* WhisperModel(...) raises: the with block frees the lock, the thread ends
LdRaises(k) ==
  /\ ld_pc[k] = "loading"
  /\ model_lock' = IF model_lock = Thread("loader", k) THEN NoThread ELSE model_lock
  /\ ld_pc' = [ld_pc EXCEPT ![k] = "dead"]
  /\ load_failed' = (load_failed \/ k = 1)
  /\ final_local' = 0
  /\ UNCHANGED <<final_setting, stream_setting, model_name, stream_name, stream_local, sw_call, lkv, model_loaded, stream_loaded, run_pc, stream_lock, ld_kind, nld, sw_pc, trayv, hkv, recv, cbv, strv, lpv, finv, uiv, stopped, queue>>

\* _load_stream_model(): with _stream_model_lock
LdStreamAcquire(k) ==
  /\ ld_pc[k] = "s_acquire"
  /\ stream_lock = NoThread
  /\ stream_lock' = Thread("loader", k)
  /\ ld_pc' = [ld_pc EXCEPT ![k] = "s_check"]
  /\ UNCHANGED <<namev, lkv, model_loaded, stream_loaded, load_failed, run_pc, model_lock, ld_kind, nld, sw_pc, trayv, hkv, recv, cbv, strv, lpv, finv, uiv, stopped, queue>>

\* if _stream_model is None (inside the lock)
LdStreamCheck(k) ==
  /\ ld_pc[k] = "s_check"
  /\ IF stream_loaded
     THEN /\ stream_lock' = NoThread
          /\ ld_pc' = [ld_pc EXCEPT ![k] = "done"]
          /\ UNCHANGED stream_local
     ELSE /\ ld_pc' = [ld_pc EXCEPT ![k] = "s_loading"]
          /\ stream_local' = stream_setting
          /\ UNCHANGED stream_lock
  /\ UNCHANGED <<final_setting, stream_setting, model_name, stream_name, final_local, sw_call, lkv, model_loaded, stream_loaded, load_failed, run_pc, model_lock, ld_kind, nld, sw_pc, trayv, hkv, recv, cbv, strv, lpv, finv, uiv, stopped, queue>>

\* _stream_model = WhisperModel(...) returns
LdStreamLoaded(k) ==
  /\ ld_pc[k] = "s_loading"
  /\ stream_loaded' = TRUE
  /\ stream_lock' = NoThread
  /\ ld_pc' = [ld_pc EXCEPT ![k] = "done"]
  /\ stream_name' = stream_local /\ stream_local' = 0
  /\ UNCHANGED <<final_setting, stream_setting, model_name, final_local, sw_call, lkv, model_loaded, load_failed, run_pc, model_lock, ld_kind, nld, sw_pc, trayv, hkv, recv, cbv, strv, lpv, finv, uiv, stopped, queue>>

\* WhisperModel(...) raises for the stream model
LdStreamRaises(k) ==
  /\ ld_pc[k] = "s_loading"
  /\ stream_lock' = NoThread
  /\ ld_pc' = [ld_pc EXCEPT ![k] = "dead"]
  /\ stream_local' = 0
  /\ UNCHANGED <<final_setting, stream_setting, model_name, stream_name, final_local, sw_call, lkv, model_loaded, stream_loaded, load_failed, run_pc, model_lock, ld_kind, nld, sw_pc, trayv, hkv, recv, cbv, strv, lpv, finv, uiv, stopped, queue>>

Loader(k) ==
  \/ LdCheck(k) \/ LdAcquire(k) \/ LdCheck2(k) \/ LdLoaded(k) \/ LdRaises(k)
  \/ LdStreamAcquire(k) \/ LdStreamCheck(k) \/ LdStreamLoaded(k) \/ LdStreamRaises(k)

\* _set_final_model(name) with a name other than the current one: the
\* setting is written and saved; the tray thread is at `with _model_lock`
SetFinalModel ==
  /\ run_pc = "mainloop" /\ tray_icon # "stopped"
  /\ sw_pc = "idle"
  /\ \E name \in ModelNames :
       IF final_setting = name
       THEN /\ sw_call' = [slot |-> "final", name |-> name, same |-> TRUE]
            /\ UNCHANGED <<final_setting, sw_pc>>
       ELSE /\ nld < MaxLoaders
            /\ final_setting' = name
            /\ sw_pc' = "final"
            /\ sw_call' = [slot |-> "final", name |-> name, same |-> FALSE]
  /\ UNCHANGED <<stream_setting, model_name, stream_name, final_local, stream_local, lkv, model_loaded, stream_loaded, load_failed, run_pc, model_lock, stream_lock, ld_kind, ld_pc, nld, trayv, hkv, recv, cbv, strv, lpv, finv, uiv, stopped, queue>>

\* variant: _model = None without taking the final model's lock
SetFinalModelNoLock ==
  /\ sw_pc = "final"
  /\ model_loaded' = FALSE
  /\ ld_kind' = [ld_kind EXCEPT ![nld + 1] = "final"]
  /\ ld_pc' = [ld_pc EXCEPT ![nld + 1] = "check"]
  /\ nld' = nld + 1
  /\ sw_pc' = "idle"
  /\ model_name' = 0
  /\ UNCHANGED <<final_setting, stream_setting, stream_name, final_local, stream_local, sw_call, lkv, stream_loaded, load_failed, run_pc, model_lock, stream_lock, trayv, hkv, recv, cbv, strv, lpv, finv, uiv, stopped, queue>>

\* with _model_lock: _model = None; then the thread that runs get_model
SetFinalModelLocked ==
  /\ sw_pc = "final"
  /\ model_lock = NoThread
  /\ model_loaded' = FALSE
  /\ ld_kind' = [ld_kind EXCEPT ![nld + 1] = "final"]
  /\ ld_pc' = [ld_pc EXCEPT ![nld + 1] = "check"]
  /\ nld' = nld + 1
  /\ sw_pc' = "idle"
  /\ model_name' = 0
  /\ UNCHANGED <<final_setting, stream_setting, stream_name, final_local, stream_local, sw_call, lkv, stream_loaded, load_failed, run_pc, model_lock, stream_lock, trayv, hkv, recv, cbv, strv, lpv, finv, uiv, stopped, queue>>

\* _set_stream_model(name) with a name other than the current one
SetStreamModel ==
  /\ run_pc = "mainloop" /\ tray_icon # "stopped"
  /\ sw_pc = "idle"
  /\ \E name \in ModelNames :
       IF stream_setting = name
       THEN /\ sw_call' = [slot |-> "stream", name |-> name, same |-> TRUE]
            /\ UNCHANGED <<stream_setting, sw_pc>>
       ELSE /\ nld < MaxLoaders
            /\ stream_setting' = name
            /\ sw_pc' = "stream"
            /\ sw_call' = [slot |-> "stream", name |-> name, same |-> FALSE]
  /\ UNCHANGED <<final_setting, model_name, stream_name, final_local, stream_local, lkv, model_loaded, stream_loaded, load_failed, run_pc, model_lock, stream_lock, ld_kind, ld_pc, nld, trayv, hkv, recv, cbv, strv, lpv, finv, uiv, stopped, queue>>

\* with _stream_model_lock: _stream_model = None; then the thread that
\* runs _load_stream_model
SetStreamModelLocked ==
  /\ sw_pc = "stream"
  /\ stream_lock = NoThread
  /\ stream_loaded' = FALSE
  /\ ld_kind' = [ld_kind EXCEPT ![nld + 1] = "stream"]
  /\ ld_pc' = [ld_pc EXCEPT ![nld + 1] = "check"]
  /\ nld' = nld + 1
  /\ sw_pc' = "idle"
  /\ stream_name' = 0
  /\ UNCHANGED <<final_setting, stream_setting, model_name, final_local, stream_local, sw_call, lkv, model_loaded, load_failed, run_pc, model_lock, stream_lock, trayv, hkv, recv, cbv, strv, lpv, finv, uiv, stopped, queue>>

SetModel == SetFinalModel \/ SetFinalModelLocked \/ SetStreamModel \/ SetStreamModelLocked

----------------------------------------------------------------------------
(* The locks' skeleton: each function of the program that takes a lock, as
   the sequence of its acquisitions and releases, calls of log included *)

Acq(l) == [op |-> "acq", lock |-> l]
Rel(l) == [op |-> "rel", lock |-> l]

\* a log() that reads the Recorder (takes its lock) while it holds _log_lock
LogProgTakesRec == <<Acq("log"), Acq("rec"), Rel("rec"), Rel("log")>>

\* log(): with _log_lock: write, flush
LogProg == <<Acq("log"), Rel("log")>>

\* Recorder.start(), peek(), get_rms(): with self._lock, no call inside
RecProg == <<Acq("rec"), Rel("rec")>>

\* Recorder.stop(): with self._lock: ... log(f"Stopped: ...")
StopProg == <<Acq("rec")>> \o LogProg \o <<Rel("rec")>>

\* get_model() that finds _model None: with _model_lock: log, load, log
GetModelProg == <<Acq("model")>> \o LogProg \o LogProg \o <<Rel("model")>>

\* _load_stream_model(): get_model(), then with _stream_model_lock: log,
\* load, log
LoadStreamProg ==
  GetModelProg \o <<Acq("stream")>> \o LogProg \o LogProg \o <<Rel("stream")>>

\* _set_final_model(): log, then with _model_lock: _model = None
SetFinalProg == LogProg \o <<Acq("model"), Rel("model")>>

\* _set_stream_model(): log, then with _stream_model_lock: _stream_model = None
SetStreamProg == LogProg \o <<Acq("stream"), Rel("stream")>>

\* the lock-taking functions each thread calls
Repertoire(t) ==
  CASE t = "hotkey" -> {LogProg, RecProg, StopProg}
    [] t = "audio"  -> {LogProg}
    [] t = "loop"   -> {RecProg, LogProg}
    [] t = "fin"    -> {GetModelProg, LogProg}
    [] t = "loader" -> {GetModelProg, LoadStreamProg}
    [] t = "tray"   -> {LogProg, SetFinalProg, SetStreamProg}
    [] OTHER        -> {RecProg}

\* thread t, in no lock-taking function, calls one
LkCall(t) ==
  /\ lk_prog[t] = << >>
  /\ \E p \in Repertoire(t) : lk_prog' = [lk_prog EXCEPT ![t] = p]
  /\ UNCHANGED <<namev, lk_owner, model_loaded, stream_loaded, load_failed, run_pc, model_lock, stream_lock, ld_kind, ld_pc, nld, sw_pc, trayv, hkv, recv, cbv, strv, lpv, finv, uiv, stopped, queue>>

\* `with lock:` entered: threading.Lock is not reentrant, the thread goes on
\* only when nobody holds the lock
LkAcquire(t) ==
  /\ lk_prog[t] # << >>
  /\ Head(lk_prog[t]).op = "acq"
  /\ lk_owner[Head(lk_prog[t]).lock] = "none"
  /\ lk_owner' = [lk_owner EXCEPT ![Head(lk_prog[t]).lock] = t]
  /\ lk_prog' = [lk_prog EXCEPT ![t] = Tail(lk_prog[t])]
  /\ UNCHANGED <<namev, model_loaded, stream_loaded, load_failed, run_pc, model_lock, stream_lock, ld_kind, ld_pc, nld, sw_pc, trayv, hkv, recv, cbv, strv, lpv, finv, uiv, stopped, queue>>

\* the end of the `with` block
LkRelease(t) ==
  /\ lk_prog[t] # << >>
  /\ Head(lk_prog[t]).op = "rel"
  /\ lk_owner' = [lk_owner EXCEPT ![Head(lk_prog[t]).lock] = "none"]
  /\ lk_prog' = [lk_prog EXCEPT ![t] = Tail(lk_prog[t])]
  /\ UNCHANGED <<namev, model_loaded, stream_loaded, load_failed, run_pc, model_lock, stream_lock, ld_kind, ld_pc, nld, sw_pc, trayv, hkv, recv, cbv, strv, lpv, finv, uiv, stopped, queue>>

NextLocks == \E t \in LkThreads : LkCall(t) \/ LkAcquire(t) \/ LkRelease(t)

SpecLocks == Init /\ [][NextLocks]_vars

----------------------------------------------------------------------------
(* Recorder._callback, on the audio thread, without Recorder._lock *)

\* if self._recording: ... (a callback that finds the flag off returns)
CbCheck ==
  /\ cb_pc = "idle" /\ recording /\ nblocks < MaxBlocks
  /\ nblocks' = nblocks + 1
  /\ cb_block' = Block(nblocks + 1, gen)
  /\ cb_pc' = "append"
  /\ UNCHANGED <<trayv, hkv, recv, strv, lpv, finv, uiv, modv, stopped, queue>>

\* the callback's append, at the end of the list
FramesAfterAppend(fr, b) == Append(fr, b)

\* self._frames.append(indata.copy()) reaches the Recorder's list: self._frames
\* was read after the last start()
CbAppend ==
  /\ cb_pc = "append"
  /\ frames' = FramesAfterAppend(frames, cb_block)
  /\ appended' = Append(appended, cb_block)
  /\ cb_pc' = "idle" /\ cb_block' = EmptyArray
  /\ UNCHANGED <<nblocks, recording, gen, open, trayv, hkv, strv, lpv, finv, uiv, modv, stopped, queue>>

\* self._frames.append(indata.copy()) goes to a list that start() has replaced
\* since self._frames was read: the block is lost
CbAppendStale ==
  /\ cb_pc = "append"
  /\ cb_block[1].era < gen
  /\ cb_pc' = "idle" /\ cb_block' = EmptyArray
  /\ UNCHANGED <<nblocks, recv, trayv, hkv, strv, lpv, finv, uiv, modv, stopped, queue>>

----------------------------------------------------------------------------
(* run.hotkey_worker: one iteration of its while loop *)

\* the down-edge branch taken whatever the enabled flag says
HkDownIgnoresFlag ==
  /\ hk_pc = "poll" /\ ~was_down /\ gen < MaxSessions
  /\ is_down' = TRUE
  /\ tray_icon' = TrayEffective("recording")
  /\ hk_pc' = "show_rec"
  /\ UNCHANGED <<enabled, was_down, hk_audio, hk_sess, recv, cbv, strv, lpv, finv, uiv, modv, stopped, queue>>

\* is_down and not was_down, tray.enabled: tray.set_state("recording")
HkDownArmed ==
  /\ hk_pc = "poll" /\ ~was_down /\ enabled /\ gen < MaxSessions
  /\ is_down' = TRUE
  /\ tray_icon' = TrayEffective("recording")
  /\ hk_pc' = "show_rec"
  /\ UNCHANGED <<enabled, was_down, hk_audio, hk_sess, recv, cbv, strv, lpv, finv, uiv, modv, stopped, queue>>

\* is_down and not was_down, not tray.enabled: pass; was_down = is_down
HkDownIgnored ==
  /\ hk_pc = "poll" /\ ~was_down /\ ~enabled
  /\ is_down' = TRUE /\ was_down' = TRUE
  /\ UNCHANGED <<hk_pc, hk_audio, hk_sess, trayv, recv, cbv, strv, lpv, finv, uiv, modv, stopped, queue>>

\* overlay.show_rec()
HkShowRec ==
  /\ hk_pc = "show_rec"
  /\ queue' = Append(queue, Cmd("rec", EmptyPreview, gen + 1, "hotkey", FALSE))
  /\ hk_pc' = "rec_start"
  /\ UNCHANGED <<is_down, was_down, hk_audio, hk_sess, trayv, recv, cbv, strv, lpv, finv, uiv, modv, stopped>>

\* recorder.start() that first waits for the final model
HkRecStartWaits ==
  /\ hk_pc = "rec_start"
  /\ model_loaded
  /\ frames' = << >> /\ recording' = TRUE
  /\ gen' = gen + 1 /\ appended' = << >> /\ open' = gen + 1
  /\ hk_pc' = "str_start"
  /\ UNCHANGED <<is_down, was_down, hk_audio, hk_sess, trayv, cbv, strv, lpv, finv, uiv, modv, stopped, queue>>

\* recorder.start(): under the lock, a new empty list and the armed flag
HkRecStart ==
  /\ hk_pc = "rec_start"
  /\ frames' = << >> /\ recording' = TRUE
  /\ gen' = gen + 1 /\ appended' = << >> /\ open' = gen + 1
  /\ hk_pc' = "str_start"
  /\ UNCHANGED <<is_down, was_down, hk_audio, hk_sess, trayv, cbv, strv, lpv, finv, uiv, modv, stopped, queue>>

\* streamer.start(): _active, _last_text, the loop thread (which first
\* sleeps STREAM_INTERVAL); then was_down = is_down
HkStrStart ==
  /\ hk_pc = "str_start"
  /\ active' = TRUE /\ last_text' = EmptyText /\ last_text_gen' = 0
  /\ lp_pc' = [lp_pc EXCEPT ![gen] = "while"]
  /\ was_down' = is_down
  /\ hk_pc' = "poll"
  /\ UNCHANGED <<is_down, hk_audio, hk_sess, lp_audio, lp_snap_gen, lp_text, npass, lp_pub, trayv, recv, cbv, finv, uiv, modv, stopped, queue>>

\* the up branch taken on the level of the key (not is_down) whatever the
\* previous sample was
HkUpOnLevel ==
  /\ hk_pc = "poll" /\ enabled /\ nfin < MaxFinal
  /\ is_down' = FALSE
  /\ hk_pc' = "rec_stop"
  /\ UNCHANGED <<was_down, hk_audio, hk_sess, trayv, recv, cbv, strv, lpv, finv, uiv, modv, stopped, queue>>

\* not is_down and was_down, tray.enabled
HkUpFinalize ==
  /\ hk_pc = "poll" /\ was_down /\ enabled /\ nfin < MaxFinal
  /\ is_down' = FALSE
  /\ hk_pc' = "rec_stop"
  /\ UNCHANGED <<was_down, hk_audio, hk_sess, trayv, recv, cbv, strv, lpv, finv, uiv, modv, stopped, queue>>

\* not is_down and was_down, not tray.enabled: nothing; was_down = is_down
HkUpIgnored ==
  /\ hk_pc = "poll" /\ was_down /\ ~enabled
  /\ is_down' = FALSE /\ was_down' = FALSE
  /\ UNCHANGED <<hk_pc, hk_audio, hk_sess, trayv, recv, cbv, strv, lpv, finv, uiv, modv, stopped, queue>>

\* is_down == was_down: neither branch; was_down = is_down
HkNoEdge ==
  /\ hk_pc = "poll"
  /\ is_down' = was_down /\ was_down' = was_down
  /\ UNCHANGED <<hk_pc, hk_audio, hk_sess, trayv, recv, cbv, strv, lpv, finv, uiv, modv, stopped, queue>>

\* audio = recorder.stop(): under the lock, the flag off and the list joined
HkRecStop ==
  /\ hk_pc = "rec_stop"
  /\ recording' = FALSE
  /\ hk_audio' = StopValue(frames)
  /\ hk_sess' = open /\ open' = 0
  /\ hk_pc' = "str_stop"
  /\ UNCHANGED <<frames, gen, appended, is_down, was_down, trayv, cbv, strv, lpv, finv, uiv, modv, stopped, queue>>

\* streamer.stop()
HkStrStop ==
  /\ hk_pc = "str_stop"
  /\ active' = FALSE
  /\ stopped' = IF hk_sess # 0 THEN [stopped EXCEPT ![hk_sess] = TRUE] ELSE stopped
  /\ hk_pc' = "spawn"
  /\ UNCHANGED <<last_text, last_text_gen, is_down, was_down, hk_audio, hk_sess, trayv, recv, cbv, lpv, finv, uiv, modv, queue>>

\* the up branch calling transcribe(audio) itself before it starts the
\* thread that hides the overlay and pastes
HkSpawnInline ==
  /\ hk_pc = "spawn"
  /\ nfin' = nfin + 1
  /\ fin_pc' = [fin_pc EXCEPT ![nfin + 1] = "hide"]
  /\ fin_audio' = [fin_audio EXCEPT ![nfin + 1] = hk_audio]
  /\ fin_preview' = [fin_preview EXCEPT ![nfin + 1] = WrapPreview(last_text)]
  /\ fin_sess' = [fin_sess EXCEPT ![nfin + 1] = hk_sess]
  /\ fin_text' = [fin_text EXCEPT ![nfin + 1] = IF TooShortForFinal(hk_audio) THEN EmptyText ELSE <<5>>]
  /\ fin_outcome' = [fin_outcome EXCEPT ![nfin + 1] = IF TooShortForFinal(hk_audio) THEN "short" ELSE "text"]
  /\ hk_audio' = EmptyArray /\ hk_sess' = 0
  /\ was_down' = is_down
  /\ hk_pc' = "poll"
  /\ UNCHANGED <<fin_handle, is_down, fin_cmds, injected, trayv, recv, cbv, strv, lpv, uiv, modv, stopped, queue>>

\* def _finish(audio=audio, preview=streamer.last_preview) and the start of
\* its thread; then was_down = is_down
HkSpawn ==
  /\ hk_pc = "spawn"
  /\ nfin' = nfin + 1
  /\ fin_pc' = [fin_pc EXCEPT ![nfin + 1] = "show_processing"]
  /\ fin_audio' = [fin_audio EXCEPT ![nfin + 1] = hk_audio]
  /\ fin_preview' = [fin_preview EXCEPT ![nfin + 1] = WrapPreview(last_text)]
  /\ fin_sess' = [fin_sess EXCEPT ![nfin + 1] = hk_sess]
  /\ hk_audio' = EmptyArray /\ hk_sess' = 0
  /\ was_down' = is_down
  /\ hk_pc' = "poll"
  /\ UNCHANGED <<fin_handle, is_down, fin_text, fin_cmds, fin_outcome, injected, trayv, recv, cbv, strv, lpv, uiv, modv, stopped, queue>>

HotkeyWorker ==
  \/ HkDownArmed \/ HkDownIgnored \/ HkShowRec \/ HkRecStart \/ HkStrStart
  \/ HkUpFinalize \/ HkUpIgnored \/ HkNoEdge \/ HkRecStop \/ HkStrStop \/ HkSpawn

----------------------------------------------------------------------------
(* StreamingTranscriber._loop, preview loop thread i *)

\* while self._active: model = get_stream_model(); None: sleep and continue
LpWhile(i) ==
  /\ lp_pc[i] = "while"
  /\ lp_pc' = [lp_pc EXCEPT ![i] = IF ~active THEN "done"
                                    ELSE IF ~stream_loaded THEN "while" ELSE "peek"]
  /\ UNCHANGED <<lp_audio, lp_snap_gen, lp_text, npass, lp_pub, trayv, hkv, recv, cbv, strv, finv, uiv, modv, stopped, queue>>

\* audio = self._recorder.peek(); too short: sleep and go round
LpPeek(i) ==
  /\ lp_pc[i] = "peek"
  /\ LET a == PeekValue(frames) IN
     IF LongEnoughForPreview(a)
     THEN /\ lp_audio' = [lp_audio EXCEPT ![i] = a]
          /\ lp_snap_gen' = [lp_snap_gen EXCEPT ![i] = gen]
          /\ lp_pc' = [lp_pc EXCEPT ![i] = "check1"]
     ELSE /\ lp_pc' = [lp_pc EXCEPT ![i] = "while"]
          /\ UNCHANGED <<lp_audio, lp_snap_gen>>
  /\ UNCHANGED <<lp_text, npass, lp_pub, trayv, hkv, recv, cbv, strv, finv, uiv, modv, stopped, queue>>

\* if not self._active: break   (before the model call)
LpCheck1(i) ==
  /\ lp_pc[i] = "check1"
  /\ IF ~active
     THEN /\ lp_pc' = [lp_pc EXCEPT ![i] = "done"]
          /\ lp_audio' = [lp_audio EXCEPT ![i] = EmptyArray]
          /\ lp_snap_gen' = [lp_snap_gen EXCEPT ![i] = 0]
          /\ UNCHANGED npass
     ELSE /\ npass < MaxPasses
          /\ npass' = npass + 1
          /\ lp_pc' = [lp_pc EXCEPT ![i] = "model"]
          /\ UNCHANGED <<lp_audio, lp_snap_gen>>
  /\ UNCHANGED <<lp_text, lp_pub, trayv, hkv, recv, cbv, strv, finv, uiv, modv, stopped, queue>>

\* segs, _ = model.transcribe(audio, ...); text = " ".join(...).strip()
LpModel(i) ==
  /\ lp_pc[i] = "model"
  /\ \E t \in PreviewTexts : lp_text' = [lp_text EXCEPT ![i] = t]
  /\ lp_audio' = [lp_audio EXCEPT ![i] = EmptyArray]
  /\ lp_pc' = [lp_pc EXCEPT ![i] = "check2"]
  /\ UNCHANGED <<lp_snap_gen, npass, lp_pub, trayv, hkv, recv, cbv, strv, finv, uiv, modv, stopped, queue>>

\* model.transcribe raises: nothing in _loop catches it, the thread ends
LpModelRaises(i) ==
  /\ lp_pc[i] = "model"
  /\ lp_audio' = [lp_audio EXCEPT ![i] = EmptyArray]
  /\ lp_snap_gen' = [lp_snap_gen EXCEPT ![i] = 0]
  /\ lp_pc' = [lp_pc EXCEPT ![i] = "dead"]
  /\ UNCHANGED <<lp_text, npass, lp_pub, trayv, hkv, recv, cbv, strv, finv, uiv, modv, stopped, queue>>

\* if not self._active: break   (after the model call)
LpCheck2(i) ==
  /\ lp_pc[i] = "check2"
  /\ IF ~active
     THEN /\ lp_pc' = [lp_pc EXCEPT ![i] = "done"]
          /\ lp_text' = [lp_text EXCEPT ![i] = EmptyText]
          /\ lp_snap_gen' = [lp_snap_gen EXCEPT ![i] = 0]
     ELSE /\ lp_pc' = [lp_pc EXCEPT ![i] = "set_last"]
          /\ UNCHANGED <<lp_text, lp_snap_gen>>
  /\ UNCHANGED <<lp_audio, npass, lp_pub, trayv, hkv, recv, cbv, strv, finv, uiv, modv, stopped, queue>>

\* log(...); self._last_text = text
LpSetLast(i) ==
  /\ lp_pc[i] = "set_last"
  /\ last_text' = lp_text[i]
  /\ last_text_gen' = lp_snap_gen[i]
  /\ lp_pc' = [lp_pc EXCEPT ![i] = "show_rec"]
  /\ UNCHANGED <<active, lp_audio, lp_snap_gen, lp_text, npass, lp_pub, trayv, hkv, recv, cbv, finv, uiv, modv, stopped, queue>>

\* self._overlay.show_rec(_wrap_preview(text)); sleep; back to the while
LpShowRec(i) ==
  /\ lp_pc[i] = "show_rec"
  /\ queue' = Append(queue, Cmd("rec", WrapPreview(lp_text[i]), i, "loop", stopped[i]))
  /\ lp_pub' = [lp_pub EXCEPT ![lp_snap_gen[i]] = Append(@, WrapPreview(lp_text[i]))]
  /\ lp_text' = [lp_text EXCEPT ![i] = EmptyText]
  /\ lp_snap_gen' = [lp_snap_gen EXCEPT ![i] = 0]
  /\ lp_pc' = [lp_pc EXCEPT ![i] = "while"]
  /\ UNCHANGED <<lp_audio, npass, trayv, hkv, recv, cbv, strv, finv, uiv, modv, stopped>>

\* The single-model variant (src/voice-type/voice-type.py): _loop has no
\* preview model to wait for, `while self._active` goes straight to peek()
LpWhileShared(i) ==
  /\ lp_pc[i] = "while"
  /\ lp_pc' = [lp_pc EXCEPT ![i] = IF ~active THEN "done" ELSE "peek"]
  /\ UNCHANGED <<lp_audio, lp_snap_gen, lp_text, npass, lp_pub, trayv, hkv, recv, cbv, strv, finv, uiv, modv, stopped, queue>>

\* single-model variant: text = transcribe(audio, verbose=False), whose
\* get_model() finds _model None at the test outside the lock
LpGetModel(i) ==
  /\ lp_pc[i] = "model"
  /\ ~model_loaded
  /\ lp_pc' = [lp_pc EXCEPT ![i] = "gm_acquire"]
  /\ UNCHANGED <<lp_audio, lp_snap_gen, lp_text, npass, lp_pub, trayv, hkv, recv, cbv, strv, finv, uiv, modv, stopped, queue>>

\* with _model_lock, on the preview loop's thread
LpGmAcquire(i) ==
  /\ lp_pc[i] = "gm_acquire"
  /\ model_lock = NoThread
  /\ model_lock' = Thread("loop", i)
  /\ lp_pc' = [lp_pc EXCEPT ![i] = "gm_check2"]
  /\ UNCHANGED <<namev, lkv, model_loaded, stream_loaded, load_failed, run_pc, stream_lock, ld_kind, ld_pc, nld, sw_pc, lp_audio, lp_snap_gen, lp_text, npass, lp_pub, trayv, hkv, recv, cbv, strv, finv, uiv, stopped, queue>>

\* the test inside the lock, on the preview loop's thread
LpGmCheck2(i) ==
  /\ lp_pc[i] = "gm_check2"
  /\ IF model_loaded
     THEN /\ model_lock' = NoThread
          /\ lp_pc' = [lp_pc EXCEPT ![i] = "model"]
     ELSE /\ lp_pc' = [lp_pc EXCEPT ![i] = "gm_loading"]
          /\ UNCHANGED model_lock
  /\ UNCHANGED <<namev, lkv, model_loaded, stream_loaded, load_failed, run_pc, stream_lock, ld_kind, ld_pc, nld, sw_pc, lp_audio, lp_snap_gen, lp_text, npass, lp_pub, trayv, hkv, recv, cbv, strv, finv, uiv, stopped, queue>>

\* _model = WhisperModel(...) returns on the preview loop's thread
LpGmLoaded(i) ==
  /\ lp_pc[i] = "gm_loading"
  /\ model_loaded' = TRUE
  /\ model_lock' = NoThread
  /\ lp_pc' = [lp_pc EXCEPT ![i] = "model"]
  /\ model_name' = final_setting
  /\ UNCHANGED <<final_setting, stream_setting, stream_name, final_local, stream_local, sw_call, lkv, stream_loaded, load_failed, run_pc, stream_lock, ld_kind, ld_pc, nld, sw_pc, lp_audio, lp_snap_gen, lp_text, npass, lp_pub, trayv, hkv, recv, cbv, strv, finv, uiv, stopped, queue>>

\* WhisperModel(...) raises on the preview loop's thread: the lock is freed
\* and the thread ends
LpGmRaises(i) ==
  /\ lp_pc[i] = "gm_loading"
  /\ model_lock' = NoThread
  /\ lp_audio' = [lp_audio EXCEPT ![i] = EmptyArray]
  /\ lp_snap_gen' = [lp_snap_gen EXCEPT ![i] = 0]
  /\ lp_pc' = [lp_pc EXCEPT ![i] = "dead"]
  /\ UNCHANGED <<namev, lkv, model_loaded, stream_loaded, load_failed, run_pc, stream_lock, ld_kind, ld_pc, nld, sw_pc, lp_text, npass, lp_pub, trayv, hkv, recv, cbv, strv, finv, uiv, stopped, queue>>

\* _loop of the single-model variant
PreviewLoopShared(i) ==
  \/ LpWhileShared(i) \/ LpPeek(i) \/ LpCheck1(i)
  \/ LpGetModel(i) \/ LpGmAcquire(i) \/ LpGmCheck2(i) \/ LpGmLoaded(i) \/ LpGmRaises(i)
  \/ (model_loaded /\ LpModel(i)) \/ (model_loaded /\ LpModelRaises(i))
  \/ LpCheck2(i) \/ LpSetLast(i) \/ LpShowRec(i)

PreviewLoop(i) ==
  \/ LpWhile(i) \/ LpPeek(i) \/ LpCheck1(i) \/ LpModel(i) \/ LpModelRaises(i)
  \/ LpCheck2(i) \/ LpSetLast(i) \/ LpShowRec(i)

----------------------------------------------------------------------------
(* run.hotkey_worker._finish, finalize task j *)

\* overlay.show_processing(preview); tray.set_state("processing")
FinShowProcessing(j) ==
  /\ fin_pc[j] = "show_processing"
  /\ queue' = Append(queue, Cmd("processing", fin_preview[j], fin_sess[j], "finish", FALSE))
  /\ fin_cmds' = [fin_cmds EXCEPT ![j] = Append(@, "processing")]
  /\ tray_icon' = TrayEffective("processing")
  /\ fin_pc' = [fin_pc EXCEPT ![j] = "transcribe"]
  /\ UNCHANGED <<fin_handle, enabled, fin_audio, fin_preview, fin_text, fin_sess, fin_outcome, nfin, injected, hkv, recv, cbv, strv, lpv, uiv, modv, stopped>>

\* transcribe(audio): "" for less than 0.3 s; else get_model(), which loads
\* the final model when no thread has yet
FinTranscribe(j) ==
  /\ fin_pc[j] = "transcribe"
  /\ IF TooShortForFinal(fin_audio[j])
     THEN /\ fin_text' = [fin_text EXCEPT ![j] = EmptyText]
          /\ fin_outcome' = [fin_outcome EXCEPT ![j] = "short"]
          /\ fin_pc' = [fin_pc EXCEPT ![j] = "hide"]
          /\ UNCHANGED <<model_loaded, model_name>>
     ELSE /\ model_loaded' = TRUE
          /\ model_name' = IF model_loaded THEN model_name ELSE final_setting
          /\ fin_pc' = [fin_pc EXCEPT ![j] = "model"]
          /\ UNCHANGED <<fin_text, fin_outcome>>
  /\ UNCHANGED <<final_setting, stream_setting, stream_name, final_local, stream_local, sw_call, fin_handle, lockv, stream_loaded, load_failed, run_pc, fin_audio, fin_preview, fin_sess, fin_cmds, nfin, injected, trayv, hkv, recv, cbv, strv, lpv, uiv, stopped, queue>>

\* transcribe: model = get_model(), statement by statement.  The test
\* outside the lock:
FinGetModel(j) ==
  /\ fin_pc[j] = "transcribe"
  /\ ~TooShortForFinal(fin_audio[j])
  /\ fin_pc' = [fin_pc EXCEPT ![j] = IF model_loaded THEN "gm_return" ELSE "gm_acquire"]
  /\ UNCHANGED <<fin_handle, fin_audio, fin_preview, fin_text, fin_sess, fin_cmds, fin_outcome, nfin, injected, trayv, hkv, recv, cbv, strv, lpv, uiv, modv, stopped, queue>>

\* with _model_lock, on the finalize thread
FinGmAcquire(j) ==
  /\ fin_pc[j] = "gm_acquire"
  /\ model_lock = NoThread
  /\ model_lock' = Thread("fin", j)
  /\ fin_pc' = [fin_pc EXCEPT ![j] = "gm_check2"]
  /\ UNCHANGED <<namev, lkv, fin_handle, model_loaded, stream_loaded, load_failed, run_pc, stream_lock, ld_kind, ld_pc, nld, sw_pc, fin_audio, fin_preview, fin_text, fin_sess, fin_cmds, fin_outcome, nfin, injected, trayv, hkv, recv, cbv, strv, lpv, uiv, stopped, queue>>

\* the test inside the lock
FinGmCheck2(j) ==
  /\ fin_pc[j] = "gm_check2"
  /\ IF model_loaded
     THEN /\ model_lock' = NoThread
          /\ fin_pc' = [fin_pc EXCEPT ![j] = "gm_return"]
          /\ UNCHANGED final_local
     ELSE /\ fin_pc' = [fin_pc EXCEPT ![j] = "gm_loading"]
          /\ final_local' = final_setting
          /\ UNCHANGED model_lock
  /\ UNCHANGED <<final_setting, stream_setting, model_name, stream_name, stream_local, sw_call, lkv, fin_handle, model_loaded, stream_loaded, load_failed, run_pc, stream_lock, ld_kind, ld_pc, nld, sw_pc, fin_audio, fin_preview, fin_text, fin_sess, fin_cmds, fin_outcome, nfin, injected, trayv, hkv, recv, cbv, strv, lpv, uiv, stopped, queue>>

\* _model = WhisperModel(...) returns on the finalize thread
FinGmLoaded(j) ==
  /\ fin_pc[j] = "gm_loading"
  /\ model_loaded' = TRUE
  /\ model_lock' = NoThread
  /\ fin_pc' = [fin_pc EXCEPT ![j] = "gm_return"]
  /\ model_name' = final_local /\ final_local' = 0
  /\ UNCHANGED <<final_setting, stream_setting, stream_name, stream_local, sw_call, lkv, fin_handle, stream_loaded, load_failed, run_pc, stream_lock, ld_kind, ld_pc, nld, sw_pc, fin_audio, fin_preview, fin_text, fin_sess, fin_cmds, fin_outcome, nfin, injected, trayv, hkv, recv, cbv, strv, lpv, uiv, stopped, queue>>

\* return _model, read outside the lock: the handle as it is now
FinGmReturn(j) ==
  /\ fin_pc[j] = "gm_return"
  /\ fin_handle' = [fin_handle EXCEPT ![j] = IF model_loaded THEN "model" ELSE "None"]
  /\ fin_pc' = [fin_pc EXCEPT ![j] = "model"]
  /\ UNCHANGED <<fin_audio, fin_preview, fin_text, fin_sess, fin_cmds, fin_outcome, nfin, injected, trayv, hkv, recv, cbv, strv, lpv, uiv, modv, stopped, queue>>

\* WhisperModel(...) raises on the finalize thread: the lock is freed and
\* _finish's except clause takes over
FinGmRaises(j) ==
  /\ fin_pc[j] = "gm_loading"
  /\ model_lock' = NoThread
  /\ fin_text' = [fin_text EXCEPT ![j] = EmptyText]
  /\ fin_outcome' = [fin_outcome EXCEPT ![j] = "raised"]
  /\ fin_pc' = [fin_pc EXCEPT ![j] = "hide"]
  /\ final_local' = 0
  /\ UNCHANGED <<final_setting, stream_setting, model_name, stream_name, stream_local, sw_call, lkv, fin_handle, model_loaded, stream_loaded, load_failed, run_pc, stream_lock, ld_kind, ld_pc, nld, sw_pc, fin_audio, fin_preview, fin_sess, fin_cmds, nfin, injected, trayv, hkv, recv, cbv, strv, lpv, uiv, stopped, queue>>

\* get_model() inside transcribe raises (the model fails to load);
\* except Exception: log, text = ""
FinLoadRaises(j) ==
  /\ fin_pc[j] = "transcribe"
  /\ ~TooShortForFinal(fin_audio[j]) /\ ~model_loaded
  /\ fin_text' = [fin_text EXCEPT ![j] = EmptyText]
  /\ fin_outcome' = [fin_outcome EXCEPT ![j] = "raised"]
  /\ fin_pc' = [fin_pc EXCEPT ![j] = "hide"]
  /\ UNCHANGED <<fin_handle, fin_audio, fin_preview, fin_sess, fin_cmds, nfin, injected, trayv, hkv, recv, cbv, strv, lpv, uiv, modv, stopped, queue>>

\* model.transcribe(audio, ...) returns; result = " ".join(parts).strip()
FinModel(j) ==
  /\ fin_pc[j] = "model"
  /\ fin_handle[j] # "None"
  /\ \E segs \in FinalSegments :
       LET t == JoinStrip(segs) IN
       /\ fin_text' = [fin_text EXCEPT ![j] = t]
       /\ fin_outcome' = [fin_outcome EXCEPT ![j] = IF t = EmptyText THEN "empty" ELSE "text"]
  /\ fin_pc' = [fin_pc EXCEPT ![j] = "hide"]
  /\ UNCHANGED <<fin_handle, fin_audio, fin_preview, fin_sess, fin_cmds, nfin, injected, trayv, hkv, recv, cbv, strv, lpv, uiv, modv, stopped, queue>>

\* the exception of transcribe leaving _finish: the thread ends there
FinModelRaisesUncaught(j) ==
  /\ fin_pc[j] = "model"
  /\ fin_outcome' = [fin_outcome EXCEPT ![j] = "raised"]
  /\ fin_pc' = [fin_pc EXCEPT ![j] = "crashed"]
  /\ UNCHANGED <<fin_handle, fin_audio, fin_preview, fin_text, fin_sess, fin_cmds, nfin, injected, trayv, hkv, recv, cbv, strv, lpv, uiv, modv, stopped, queue>>

\* transcribe raises; except Exception: log, text = ""
FinModelRaises(j) ==
  /\ fin_pc[j] = "model"
  /\ fin_text' = [fin_text EXCEPT ![j] = EmptyText]
  /\ fin_outcome' = [fin_outcome EXCEPT ![j] = "raised"]
  /\ fin_pc' = [fin_pc EXCEPT ![j] = "hide"]
  /\ UNCHANGED <<fin_handle, fin_audio, fin_preview, fin_sess, fin_cmds, nfin, injected, trayv, hkv, recv, cbv, strv, lpv, uiv, modv, stopped, queue>>

\* overlay.hide(); tray.set_state("idle"); if text: ...
FinHide(j) ==
  /\ fin_pc[j] = "hide"
  /\ queue' = Append(queue, Cmd("hide", EmptyPreview, fin_sess[j], "finish", FALSE))
  /\ fin_cmds' = [fin_cmds EXCEPT ![j] = Append(@, "hide")]
  /\ tray_icon' = TrayEffective("idle")
  /\ fin_pc' = [fin_pc EXCEPT ![j] = IF fin_text[j] # EmptyText THEN "paste" ELSE "done"]
  /\ fin_audio' = [fin_audio EXCEPT ![j] = EmptyArray]
  /\ UNCHANGED <<fin_handle, enabled, fin_preview, fin_text, fin_sess, fin_outcome, nfin, injected, hkv, recv, cbv, strv, lpv, uiv, modv, stopped>>

\* paste_text(text): _send_text_input(text) unless text.strip() is empty
FinPaste(j) ==
  /\ fin_pc[j] = "paste"
  /\ injected' = IF Strip(fin_text[j]) # EmptyText
                 THEN Append(injected, [sess |-> fin_sess[j], task |-> j, text |-> fin_text[j]])
                 ELSE injected
  /\ fin_pc' = [fin_pc EXCEPT ![j] = "done"]
  /\ UNCHANGED <<fin_handle, fin_audio, fin_preview, fin_text, fin_sess, fin_cmds, fin_outcome, nfin, trayv, hkv, recv, cbv, strv, lpv, uiv, modv, stopped, queue>>

Finish(j) ==
  \/ FinShowProcessing(j) \/ FinTranscribe(j) \/ FinLoadRaises(j)
  \/ FinModel(j) \/ FinModelRaises(j)
  \/ FinHide(j) \/ FinPaste(j)

----------------------------------------------------------------------------
(* Overlay._poll on the UI thread: one command taken off the queue *)

\* Overlay._poll taking every command off the queue and applying the last
UiPollKeepsLast ==
  /\ run_pc = "mainloop"
  /\ queue # << >>
  /\ LET c == queue[Len(queue)] IN
     /\ queue' = << >>
     /\ ov_state' = IF c.cmd \in {"hide", "quit"} THEN "hidden" ELSE c.cmd
     /\ ov_visible' = (c.cmd \notin {"hide", "quit"})
     /\ ov_label' = IF c.preview # EmptyPreview
                    THEN [text |-> c.preview, packed |-> TRUE]
                    ELSE [ov_label EXCEPT !.packed = FALSE]
     /\ ui_rank' = IF c.sess \in Sessions
                   THEN [ui_rank EXCEPT ![c.sess] = Rank(c.cmd)]
                   ELSE ui_rank
     /\ run_pc' = IF c.cmd = "quit" THEN "exited" ELSE run_pc
  /\ UNCHANGED <<namev, ui_raw, lockv, model_loaded, stream_loaded, load_failed, trayv, hkv, recv, cbv, strv, lpv, finv, stopped>>

\* cmd, preview = self._cmd_queue.get_nowait() and the branch for cmd:
\* "quit" destroys the window and exits the process, "hide" withdraws it,
\* "rec" and "processing" set the state and the preview label and show it
UiPoll ==
  /\ run_pc = "mainloop"
  /\ queue # << >>
  /\ LET c == Head(queue) IN
     /\ queue' = Tail(queue)
     /\ IF c.cmd = "quit"
        THEN /\ run_pc' = "exited"
             /\ UNCHANGED <<ov_state, ov_visible, ov_label>>
        ELSE /\ UNCHANGED run_pc
             /\ IF c.cmd = "hide"
                THEN /\ ov_visible' = FALSE
                     /\ ov_state' = "hidden"
                     /\ UNCHANGED ov_label
                ELSE /\ ov_state' = c.cmd
                     /\ ov_label' = IF c.preview # EmptyPreview
                                    THEN [text |-> c.preview, packed |-> TRUE]
                                    ELSE [ov_label EXCEPT !.packed = FALSE]
                     /\ ov_visible' = TRUE
     /\ ui_rank' = IF c.sess \in Sessions
                   THEN [ui_rank EXCEPT ![c.sess] = Rank(c.cmd)]
                   ELSE ui_rank
  /\ UNCHANGED <<namev, ui_raw, lockv, model_loaded, stream_loaded, load_failed, trayv, hkv, recv, cbv, strv, lpv, finv, stopped>>

\* Overlay._animate while the overlay shows the recording state:
\* raw = self._get_level(), that is recorder.get_rms()
UiAnimate ==
  /\ run_pc = "mainloop"
  /\ ov_visible /\ ov_state = "rec"
  /\ ui_raw' = [rms |-> GetRms(frames), called |-> TRUE, nframes |-> Len(frames), gen |-> gen]
  /\ UNCHANGED <<ov_state, ov_visible, ov_label, ui_rank, trayv, hkv, recv, cbv, strv, lpv, finv, modv, stopped, queue>>

----------------------------------------------------------------------------

Next ==
  \/ Run
  \/ ToggleEnabled \/ TrayExit
  \/ LoadFinalModel \/ LoadFinalModelRaises \/ LoadStreamModel
  \/ CbCheck \/ CbAppend \/ CbAppendStale
  \/ HotkeyWorker
  \/ \E i \in Sessions : PreviewLoop(i)
  \/ \E j \in FinIds : Finish(j)
  \/ UiPoll

\* The whole program, from the call of run().
Spec == InitStartup /\ [][Next]_vars

\* The hotkey worker with the tray and the audio callback: the threads that
\* write the Recorder, the enabled flag and the hotkey worker's own state.
\* No other thread writes a variable these three read.
NextHotkey ==
  \/ ToggleEnabled
  \/ CbCheck \/ CbAppend \/ CbAppendStale
  \/ HotkeyWorker

SpecHotkey == Init /\ [][NextHotkey]_vars

\* The capture side: SpecHotkey with the model loaders and the preview loops.
\* Finalize tasks and the UI thread write none of the variables these read.
NextCapture ==
  \/ NextHotkey
  \/ LoadFinalModel \/ LoadStreamModel
  \/ \E i \in Sessions : PreviewLoop(i)

SpecCapture == Init /\ [][NextCapture]_vars

\* The finalize side: SpecHotkey with the final model's loader and the
\* finalize tasks.  The preview loops decide only the preview text a task
\* carries, the UI thread only takes commands off the queue.
NextFinish ==
  \/ NextHotkey
  \/ LoadFinalModel
  \/ \E j \in FinIds : Finish(j)

SpecFinish == Init /\ [][NextFinish]_vars

\* the hotkey worker while the enabled flag stays on, up to its second
\* armed down-edge
HotkeyWorkerFirst ==
  \/ (gen = 0 /\ HkDownArmed) \/ HkShowRec \/ HkRecStart \/ HkStrStart
  \/ HkUpFinalize \/ HkNoEdge \/ HkRecStop \/ HkStrStop \/ HkSpawn

\* The first session of a run in which the tray is left alone: every thread
\* of the program, with one armed down-edge.
NextFirstSession ==
  \/ LoadFinalModel \/ LoadStreamModel
  \/ CbCheck \/ CbAppend
  \/ HotkeyWorkerFirst
  \/ \E i \in Sessions : PreviewLoop(i)
  \/ \E j \in FinIds : Finish(j)
  \/ UiPoll

SpecFirstSession == Init /\ [][NextFirstSession]_vars

\* the hotkey worker while the enabled flag stays on
HotkeyWorkerOn ==
  \/ HkDownArmed \/ HkShowRec \/ HkRecStart \/ HkStrStart
  \/ HkUpFinalize \/ HkNoEdge \/ HkRecStop \/ HkStrStop \/ HkSpawn

\* The capture side in a run in which the tray is left alone.
NextPreview ==
  \/ LoadFinalModel \/ LoadStreamModel
  \/ CbCheck \/ CbAppend \/ CbAppendStale
  \/ HotkeyWorkerOn
  \/ \E i \in Sessions : PreviewLoop(i)

SpecPreview == Init /\ [][NextPreview]_vars

\* Sessions that overlap the finalize tasks of earlier ones, as the overlay
\* shows them, in a run in which the tray is left alone: the audio callback,
\* the hotkey worker, the finalize tasks and the UI thread.  The preview
\* loops only add ShowRecording commands.
NextOverlap ==
  \/ LoadFinalModel
  \/ CbCheck \/ CbAppend \/ CbAppendStale
  \/ HotkeyWorkerOn
  \/ \E j \in FinIds : Finish(j)
  \/ UiPoll

SpecOverlap == Init /\ [][NextOverlap]_vars

\* The program from the call of run(), in a run in which the tray is left
\* alone: run() itself, the final model's loader, the audio callback and the
\* hotkey worker, which go on whatever the threads they spawn do.
NextStartup ==
  \/ Run
  \/ LoadFinalModel \/ LoadFinalModelRaises
  \/ CbCheck \/ CbAppend \/ CbAppendStale
  \/ HotkeyWorkerOn

SpecStartup == InitStartup /\ [][NextStartup]_vars

\* the process is running: run() is in overlay.mainloop().  The worker threads
\* are daemon threads and end with the process.
Alive == run_pc = "mainloop"

\* The overlay command queue with all its producers and its consumer: the
\* first session with the tray's Exit, until the process exits.
NextChannel ==
  \/ (Alive /\ LoadFinalModel) \/ (Alive /\ LoadStreamModel)
  \/ (Alive /\ CbCheck) \/ (Alive /\ CbAppend)
  \/ (Alive /\ HotkeyWorkerFirst)
  \/ (Alive /\ \E i \in Sessions : PreviewLoop(i))
  \/ (Alive /\ \E j \in FinIds : Finish(j))
  \/ UiPoll
  \/ TrayExit

SpecChannel == Init /\ [][NextChannel]_vars

\* the steps the hotkey worker takes by itself once it has seen an edge
HotkeyWorkerBranch ==
  HkShowRec \/ HkRecStart \/ HkStrStart \/ HkRecStop \/ HkStrStop \/ HkSpawn

\* The first session of a run with the tray's Enabled item in use: every
\* thread of the program, and one press of the key, made with the flag on.
\* The key and the menu are the user's: the worker sees an edge when the
\* user makes one, and nothing obliges the user to.
NextLive ==
  \/ ToggleEnabled
  \/ LoadFinalModel \/ LoadStreamModel
  \/ CbCheck \/ CbAppend
  \/ (gen = 0 /\ HkDownArmed) \/ HkUpFinalize \/ HkUpIgnored \/ HkNoEdge
  \/ HotkeyWorkerBranch
  \/ \E i \in Sessions : PreviewLoop(i)
  \/ \E j \in FinIds : Finish(j)
  \/ UiPoll

\* every thread of the program that can take a step eventually takes one:
\* the threads are daemon threads of one process and the mainloop re-arms
\* _poll every 40 ms; a model call returns or raises
LiveFairness ==
  /\ WF_vars(HotkeyWorkerBranch)
  /\ WF_vars(CbAppend)
  /\ WF_vars(LoadFinalModel) /\ WF_vars(LoadStreamModel)
  /\ \A i \in Sessions : WF_vars(PreviewLoop(i))
  /\ \A j \in FinIds : WF_vars(Finish(j))
  /\ WF_vars(UiPoll)

SpecLive == Init /\ [][NextLive]_vars /\ LiveFairness

\* The readers and writers of the Recorder's list while the overlay runs:
\* the hotkey worker, the audio callback and the UI thread's _poll and
\* _animate.
NextLevel ==
  \/ CbCheck \/ CbAppend \/ CbAppendStale
  \/ HotkeyWorkerOn
  \/ UiPoll
  \/ UiAnimate

SpecLevel == Init /\ [][NextLevel]_vars

\* _finish with transcribe's get_model() taken statement by statement
FinishLocked(j) ==
  \/ FinShowProcessing(j)
  \/ (TooShortForFinal(fin_audio[j]) /\ FinTranscribe(j))
  \/ FinGetModel(j) \/ FinGmAcquire(j) \/ FinGmCheck2(j) \/ FinGmLoaded(j) \/ FinGmRaises(j)
  \/ FinGmReturn(j)
  \/ FinModel(j) \/ FinModelRaises(j)
  \/ FinHide(j) \/ FinPaste(j)

\* The callers of get_model and _load_stream_model during the first session
\* of a run: the loader threads, the tray's model switches and the finalize
\* task, with the hotkey worker and the audio callback that feed it.
NextLoad ==
  \/ \E k \in Loaders : Loader(k)
  \/ SetModel
  \/ CbCheck \/ CbAppend
  \/ HotkeyWorkerFirst
  \/ \E j \in FinIds : FinishLocked(j)

SpecLoad == Init /\ [][NextLoad]_vars

\* the model loads and the tray's model switches alone: the two loader
\* threads the hotkey worker starts, the menu calls, and the reload threads
\* the calls start
NextSwitch ==
  \/ \E k \in Loaders : Loader(k)
  \/ SetModel
  \/ HotkeyWorkerFirst

SpecSwitch == Init /\ [][NextSwitch]_vars

\* the thread hotkey_worker starts on get_model
GetModelThread(k) ==
  LdCheck(k) \/ LdAcquire(k) \/ LdCheck2(k) \/ LdLoaded(k) \/ LdRaises(k)

\* The single-model variant during the first session of a run: one model
\* slot and one lock, used by the loader thread, the preview loop and the
\* finalize task.
NextSingleModel ==
  \/ GetModelThread(1)
  \/ CbCheck \/ CbAppend
  \/ HotkeyWorkerFirst
  \/ \E i \in Sessions : PreviewLoopShared(i)
  \/ \E j \in FinIds : FinishLocked(j)

SpecSingleModel == Init /\ [][NextSingleModel]_vars

----------------------------------------------------------------------------
(* Claims *)

\* a preview loop holds a snapshot from peek() until its model call returns
HoldsSnapshot(i) == lp_pc[i] \in {"check1", "model"}

\* C1: once streamer.stop() has returned for a session, that session's
\* preview loop puts no further ("rec", preview) command on the overlay queue.
C1_NoRecAfterStop ==
  \A k \in DOMAIN queue : queue[k].src = "loop" => ~queue[k].late

\* C2: a finalize task that has got past its transcription has put exactly
\* ShowProcessing and then Hide on the queue, whatever the transcription did
\* (text, no text, audio too short, an exception); until then it has put
\* ShowProcessing alone; and no exception of transcribe ends the task early.
C2_HideAlwaysFollows ==
  \A j \in FinIds :
    /\ fin_pc[j] # "crashed"
    /\ fin_pc[j] \in {"paste", "done"} => fin_cmds[j] = <<"processing", "hide">>
    /\ fin_pc[j] \in {"transcribe", "model", "hide"} => fin_cmds[j] = <<"processing">>
    /\ fin_pc[j] \in {"none", "show_processing"} => fin_cmds[j] = << >>

\* C2 witness: a task whose transcription raised has finished, Hide put.
C2_Witness ==
  \E j \in FinIds :
    /\ fin_pc[j] = "done" /\ fin_outcome[j] = "raised"
    /\ fin_cmds[j] = <<"processing", "hide">>

\* C3: exactly one finalize task per session: once the worker has seen the
\* key up again, every armed session has its finalize task, no session has
\* two, and no finalize task was spawned without an armed session to end.
C3_OneFinalizePerSession ==
  /\ \A j \in FinIds : fin_pc[j] # "none" => fin_sess[j] # 0
  /\ \A s \in Sessions : Cardinality({j \in FinIds : fin_sess[j] = s}) <= 1
  /\ (hk_pc = "poll" /\ ~was_down) =>
       \A s \in 1..gen : \E j \in FinIds : fin_sess[j] = s

\* C4: the commands the UI thread applies for one session never go back in
\* hidden -> rec -> processing -> hidden: no rec after that session's
\* processing, no rec or processing after its hide.
C4_UiSequencePerSession ==
  [][\A s \in Sessions : ui_rank'[s] >= ui_rank[s]]_vars

\* C5: the enabled flag is consulted on the down-edge only: once the worker
\* has seen the key up again, the buffer is disarmed, the preview loop is
\* told to stop and no session is left open, whatever the tray did meanwhile.
C5_UpEdgeEndsSession ==
  (hk_pc = "poll" /\ ~was_down) => (~recording /\ ~active /\ open = 0)

\* C6: a down-edge sampled while the enabled flag is off ends the iteration
\* at once and changes nothing: not the Recorder, not the StreamingTranscriber
\* or its loop threads, not the finalize tasks, not the queue, not the tray icon.
C6_DisabledDownIgnored ==
  [][(hk_pc = "poll" /\ ~was_down /\ ~is_down /\ ~enabled /\ is_down')
       => (hk_pc' = "poll" /\ UNCHANGED <<recv, strv, lpv, finv, queue, trayv, stopped>>)]_vars

\* C6 witness: the worker has taken a down-edge (was_down) that armed
\* nothing, with the flag off.
C6_Witness ==
  hk_pc = "poll" /\ was_down /\ ~enabled /\ gen = 0 /\ ~recording /\ queue = << >>

\* C7: what peek() returns after a start() holds only blocks of callbacks
\* that ran after that start().
C7_PeekOnlySinceStart ==
  \A k \in DOMAIN PeekValue(frames) : PeekValue(frames)[k].era = gen

\* C8: peek() before any start() is empty, and the frames list does not
\* change between a stop() and the next start().
C8_FramesGrowOnlyWhileArmed ==
  /\ [](gen = 0 => PeekValue(frames) = EmptyArray)
  /\ [][(~recording /\ ~recording') => frames' = frames]_vars

\* C9: stop() clears the armed flag and returns the blocks appended since
\* the last start(), joined in append order; with none appended it returns
\* the empty array and raises nothing.
C9_StopReturnsAppended ==
  [][(hk_pc = "rec_stop" /\ hk_pc' = "str_stop")
       => (/\ ~recording'
           /\ hk_audio' = Join(appended)
           /\ hk_audio' # ValueError
           /\ appended = << >> => hk_audio' = EmptyArray)]_vars

\* C9 witness: stop() has returned two blocks.
C9_Witness ==
  hk_pc = "str_stop" /\ ~recording /\ Len(hk_audio) = 2 /\ hk_audio = Join(appended)

\* C10: peek() changes neither the frames list nor the armed flag; a
\* snapshot stays as it was taken while blocks are appended; and within one
\* session a snapshot is a prefix of what the list holds later, of every
\* later snapshot and of what stop() returns.
C10_PeekIsCopy ==
  /\ [](\A i \in Sessions :
          (HoldsSnapshot(i) /\ lp_snap_gen[i] = gen)
            => IsPrefix(lp_audio[i], PeekValue(frames)))
  /\ [][\A i \in Sessions :
          /\ (lp_pc[i] = "peek" /\ lp_pc'[i] # "peek")
               => /\ UNCHANGED <<frames, recording>>
                  /\ \A k \in Sessions :
                       (k # i /\ HoldsSnapshot(k) /\ HoldsSnapshot(i)' /\ lp_snap_gen[k] = gen)
                         => IsPrefix(lp_audio[k], lp_audio'[i])
          /\ (HoldsSnapshot(i) /\ HoldsSnapshot(i)')
               => lp_audio'[i] = lp_audio[i]
          /\ (HoldsSnapshot(i) /\ lp_snap_gen[i] = gen
                /\ hk_pc = "rec_stop" /\ hk_pc' = "str_stop")
               => IsPrefix(lp_audio[i], hk_audio')]_vars

\* C10 witness: a loop still holds its snapshot and a block has been
\* appended to the list since.
C10_Witness ==
  \E i \in Sessions :
    /\ HoldsSnapshot(i) /\ lp_snap_gen[i] = gen
    /\ Len(lp_audio[i]) = 2 /\ Len(frames) = 3

\* the overlay fields after command c has been applied in full
AppliedNext(c) ==
  CASE c.cmd = "quit" -> run_pc' = "exited" /\ UNCHANGED <<ov_state, ov_visible, ov_label>>
    [] c.cmd = "hide" -> ov_state' = "hidden" /\ ~ov_visible' /\ UNCHANGED run_pc
    [] OTHER -> /\ ov_state' = c.cmd /\ ov_visible' /\ UNCHANGED run_pc
                /\ ov_label' = IF c.preview # EmptyPreview
                               THEN [text |-> c.preview, packed |-> TRUE]
                               ELSE [ov_label EXCEPT !.packed = FALSE]

\* a step of the queue: a command is put at its tail, or the consumer takes
\* the command at its head and applies all of it; the overlay changes in no
\* other step, and nothing is taken after the process has exited
QueueStep ==
  /\ queue' # queue =>
       \/ /\ Len(queue') = Len(queue) + 1
          /\ SubSeq(queue', 1, Len(queue)) = queue
          /\ UNCHANGED <<ov_state, ov_visible, ov_label>>
       \/ /\ queue # << >>
          /\ queue' = Tail(queue)
          /\ AppliedNext(Head(queue))
  /\ (<<ov_state, ov_visible, ov_label>>' # <<ov_state, ov_visible, ov_label>>)
       => (queue # << >> /\ queue' = Tail(queue))
  /\ (run_pc = "exited") => (queue' = queue)

\* C11 (as amended): the overlay queue never reorders or partially applies
\* commands and drops none ahead of a quit: commands leave the queue from its
\* head only, one per step of Overlay._poll, each applied in full before the
\* next is taken, so those of one producer are applied in the order it put
\* them; the overlay changes in no other step; and once quit has been applied
\* nothing more is taken.
C11_FifoUntilQuit == [][QueueStep]_vars

\* C11 witness: quit has been applied while a command put behind it waits.
C11_Witness == run_pc = "exited" /\ queue # << >> /\ ui_rank[1] > 0

\* C11 (as claimed): the queue is first-in first-out, and every command put
\* on it is applied: none is left on the queue when Overlay._poll has stopped.
C11_EveryCommandApplied ==
  /\ [][QueueStep]_vars
  /\ [](run_pc = "exited" => queue = << >>)

\* C12: a step of the hotkey worker, of a preview loop or of a finalize task
\* changes neither what the overlay shows nor what the tray icon shows: those
\* threads only put commands on the queue.
C12_WorkersOnlyEnqueue ==
  [][(hkv' # hkv \/ lpv' # lpv \/ finv' # finv)
       => UNCHANGED <<tray_icon, ov_state, ov_visible, ov_label>>]_vars

\* the injection calls made by finalize task j
InjectedBy(j) == {k \in DOMAIN injected : injected[k].task = j}

\* C13: in a finalize task ShowProcessing is put before the transcription,
\* Hide after it, and the injection comes after Hide; a finished task has
\* injected once if its text is non-empty and not at all if it is empty; and
\* no injected text is empty or whitespace only.
C13_FinalizeOrder ==
  /\ \A k \in DOMAIN injected :
       /\ Strip(injected[k].text) # EmptyText
       /\ Strip(injected[k].text) = injected[k].text
  /\ \A j \in FinIds :
       /\ Cardinality(InjectedBy(j)) <= 1
       /\ fin_pc[j] = "done" => (InjectedBy(j) # {} <=> fin_text[j] # EmptyText)
       /\ \A k \in InjectedBy(j) :
            /\ fin_cmds[j] = <<"processing", "hide">>
            /\ fin_outcome[j] = "text"
            /\ injected[k].text = fin_text[j]
       /\ fin_outcome[j] # "none" => fin_cmds[j] # << >>
       /\ fin_cmds[j] = <<"processing", "hide">> => fin_outcome[j] # "none"

\* C13 witness: a finished task that injected its text, and a finished task
\* with empty text that injected nothing.
C13_Witness ==
  /\ \E j \in FinIds : fin_pc[j] = "done" /\ InjectedBy(j) # {}
  /\ \E j \in FinIds : fin_pc[j] = "done" /\ fin_outcome[j] = "empty" /\ InjectedBy(j) = {}

\* finalize task j ends a session whose captured audio has fewer than 4800
\* samples (0.3 s at 16 kHz)
ShortTask(j) ==
  /\ fin_sess[j] # 0
  /\ \/ fin_outcome[j] = "short"
     \/ fin_pc[j] \in {"show_processing", "transcribe"} /\ ArrayLen(fin_audio[j]) < 4800

\* C14: for a session whose captured audio is shorter than 0.3 s, no preview
\* transcribed from its audio is published, its finalize task is spawned,
\* transcribe returns "" there without a call of the model (and without
\* loading it), nothing is injected, and the finished task has put
\* ShowProcessing and Hide.
C14_ShortSession ==
  /\ [](\A j \in FinIds : ShortTask(j) =>
          /\ lp_pub[fin_sess[j]] = << >>
          /\ InjectedBy(j) = {}
          /\ fin_text[j] = EmptyText
          /\ fin_pc[j] \in {"show_processing", "transcribe", "hide", "done"}
          /\ fin_pc[j] = "done" => fin_cmds[j] = <<"processing", "hide">>)
  /\ [](\A s \in Sessions : (stopped[s] /\ hk_pc = "poll") => \E j \in FinIds : fin_sess[j] = s)
  /\ [][\A j \in FinIds :
          (ShortTask(j) /\ fin_pc[j] = "transcribe" /\ fin_pc'[j] # "transcribe")
            => /\ fin_pc'[j] = "hide" /\ fin_outcome'[j] = "short"
               /\ fin_text'[j] = EmptyText /\ UNCHANGED model_loaded]_vars

\* C14 witness: the finalize task of a short session has finished while the
\* preview model was loaded and the session's loop had run.
C14_Witness ==
  \E j \in FinIds :
    /\ ShortTask(j) /\ fin_pc[j] = "done" /\ fin_outcome[j] = "short"
    /\ stream_loaded /\ lp_pc[fin_sess[j]] = "done"

\* the key is up and seen up, every finalize task and every preview loop
\* thread has ended, and the queue is drained
Quiescent ==
  /\ hk_pc = "poll" /\ ~is_down /\ ~was_down
  /\ \A j \in FinIds : fin_pc[j] \in {"none", "done"}
  /\ \A i \in Sessions : lp_pc[i] \in {"none", "done", "dead"}
  /\ queue = << >>

\* C15: whenever the program is quiescent, the overlay is hidden.
C15_HiddenWhenQuiescent == Quiescent => (~ov_visible /\ ov_state = "hidden")

\* C16: streamer.start() empties the last-preview text; the text read for a
\* session's ShowProcessing was transcribed from that session's audio; and a
\* preview put on the queue once a later session has started was not
\* transcribed from an earlier session's audio.
C16_NoCarryOver ==
  /\ []((hk_pc = "spawn" /\ hk_sess # 0 /\ last_text # EmptyText) => last_text_gen = hk_sess)
  /\ [][/\ (hk_pc = "str_start" /\ hk_pc' = "poll") => last_text' = EmptyText
        /\ \A i \in Sessions :
             (lp_pc[i] = "show_rec" /\ lp_pc'[i] = "while" /\ lp_text[i] # EmptyText)
               => lp_snap_gen[i] = gen]_vars

\* the preview of the last ShowRecording the loops published for session s
LastPub(s) == IF lp_pub[s] = << >> THEN EmptyPreview ELSE lp_pub[s][Len(lp_pub[s])]

\* C17: once the preview loops have ended, the preview a session's finalize
\* task carries in ShowProcessing is the preview of the last ShowRecording
\* published for that session, and is empty when none was published.
C17_ProcessingCarriesLastPreview ==
  (\A i \in Sessions : lp_pc[i] \in {"none", "done", "dead"})
    => \A j \in FinIds : fin_sess[j] # 0 => fin_preview[j] = LastPub(fin_sess[j])

\* C18: while a session is recording (the buffer armed, the key held and
\* seen down) and the queue is drained, the overlay is visible in the rec
\* state, whatever the finalize tasks of earlier sessions do meanwhile.
C18_RecShownWhileRecording ==
  (hk_pc = "poll" /\ was_down /\ recording /\ open # 0 /\ queue = << >>)
    => (ov_visible /\ ov_state = "rec")

\* C19: a failure to open the input stream in Recorder() leaves run() as an
\* exception, with the hotkey thread not started and nothing done; and the
\* hotkey thread only ever runs with the stream open.
C19_NoSessionWithoutStream ==
  /\ [](hk_pc # "unstarted" => cb_pc # "nostream")
  /\ [](run_pc = "raised" =>
          (hk_pc = "unstarted" /\ cb_pc = "nostream" /\ gen = 0 /\ ~recording /\ queue = << >>))
  /\ [][(run_pc = "recorder" /\ run_pc' # "recorder" /\ cb_pc' = "nostream")
          => run_pc' = "raised"]_vars

\* C19 witness: Recorder() has raised out of run().
C19_Witness == run_pc = "raised" /\ hk_pc = "unstarted" /\ cb_pc = "nostream"

\* C20: once the first load of the final model has failed, no session is
\* armed any more.
C20_AbortOnFailedLoad == [][load_failed => gen' = gen]_vars

\* a step that is the critical section of Recorder.start(), stop() or peek()
RecorderSection ==
  \/ hk_pc \in {"rec_start", "rec_stop"} /\ hk_pc' # hk_pc
  \/ \E i \in Sessions : lp_pc[i] = "peek" /\ lp_pc'[i] # "peek"

\* C21: the callback's test of the armed flag and its append are one critical
\* section: between the two, no critical section of start(), stop() or peek()
\* is entered.
C21_CallbackHoldsLock == [][cb_pc = "append" => ~RecorderSection]_vars

\* C22: when the hotkey worker reads streamer.last_preview for the finalize
\* task of a session, streamer.stop() has not yet been called for that session.
C22_PreviewReadBeforeStop ==
  [][(nfin' # nfin /\ hk_sess # 0) => ~stopped[hk_sess]]_vars

RECURSIVE PubCount(_)
\* the number of previews the loops have published for sessions 1..n
PubCount(n) == IF n = 0 THEN 0 ELSE Len(lp_pub[n]) + PubCount(n - 1)

\* the commands on the queue that a preview loop put there
LoopCmds == {k \in DOMAIN queue : queue[k].src = "loop"}

\* C23: a preview cycle goes on to the preview model exactly when its
\* snapshot holds at least 12800 samples (0.8 s at 16 kHz); a cycle with a
\* shorter snapshot ends there, with the queue and the last-preview text as
\* they were; and the loops publish and set the last-preview text only
\* after a model call on such a snapshot.
C23_PreviewThreshold ==
  /\ [](\A i \in Sessions : HoldsSnapshot(i) => ArrayLen(lp_audio[i]) >= 12800)
  /\ [](PubCount(MaxSessions) <= npass)
  /\ [][\A i \in Sessions :
          /\ (lp_pc[i] = "peek" /\ lp_pc'[i] # "peek") =>
                IF ArrayLen(PeekValue(frames)) >= 12800
                THEN lp_pc'[i] = "check1" /\ lp_audio'[i] = PeekValue(frames)
                ELSE lp_pc'[i] = "while" /\ UNCHANGED <<queue, last_text, npass>>
          /\ (lp_pc[i] \notin {"none", lp_pc'[i]} /\ (queue' # queue \/ last_text' # last_text))
                => lp_pc[i] \in {"set_last", "show_rec"}
          /\ lp_pc'[i] = "model" => lp_pc[i] \in {"model", "check1"}
          /\ lp_pc'[i] \in {"check2", "set_last", "show_rec"}
                => lp_pc[i] \in {"model", "check2", "set_last", "show_rec"}]_vars

\* C23 witness: the preview model is being called on a snapshot of exactly
\* 0.8 s, and a cycle with a shorter snapshot was skipped before.
C23_Witness ==
  \E i \in Sessions :
    /\ lp_pc[i] = "model" /\ ArrayLen(lp_audio[i]) = 12800
    /\ LoopCmds = {} /\ last_text = EmptyText

\* C24: the steps of an armed down-edge (ShowRecording, recorder.start(),
\* streamer.start()) can be taken whatever the models' loaders have done;
\* and while the preview model is not loaded no loop gets past its test of
\* get_stream_model(): no preview is published, no model call made, and
\* the last-preview text stays empty.
C24_RecordingNeverWaits ==
  /\ hk_pc = "show_rec" => ENABLED HkShowRec
  /\ hk_pc = "rec_start" => ENABLED HkRecStart
  /\ hk_pc = "str_start" => ENABLED HkStrStart
  /\ ~stream_loaded =>
       /\ \A i \in Sessions : lp_pc[i] \in {"none", "while", "done"}
       /\ LoopCmds = {} /\ npass = 0 /\ last_text = EmptyText

\* C24 witness: a session records and its loop runs with 0.8 s captured,
\* and neither model is loaded.
C24_Witness ==
  /\ ~model_loaded /\ ~stream_loaded
  /\ recording /\ active /\ hk_pc = "poll" /\ was_down
  /\ lp_pc[gen] = "while" /\ ArrayLen(PeekValue(frames)) >= 12800
  /\ \E k \in DOMAIN queue : queue[k].cmd = "rec" /\ queue[k].sess = gen

\* C25: the loop thread of a session whose stop() has run never begins
\* another cycle: at its next test of the liveness flag it leaves the loop,
\* also when start() has been called for the next session in between.
C25_LoopExitsAfterStop ==
  [][\A i \in Sessions :
       (stopped[i] /\ lp_pc[i] = "while") => lp_pc'[i] \in {"while", "done"}]_vars

\* C28: at most one finalize task is between get_model()'s return and the
\* return of model.transcribe(...) at any time.
C28_OneFinalCall ==
  Cardinality({j \in FinIds : fin_pc[j] = "model"}) <= 1

\* the loads of the final model in flight: threads inside WhisperModel(...)
\* of get_model
FinalLoads ==
  Cardinality({k \in Loaders : ld_pc[k] = "loading"})
  + Cardinality({j \in FinIds : fin_pc[j] = "gm_loading"})

\* the loads of the preview model in flight
StreamLoads == Cardinality({k \in Loaders : ld_pc[k] = "s_loading"})

\* C26: for each model slot at most one load is in flight, whatever the
\* loader threads, the finalize tasks' get_model() calls and the tray's
\* model switches do.
C26_OneLoadPerSlot == FinalLoads <= 1 /\ StreamLoads <= 1

\* C26 witness: after a switch of the final model, the thread the switch
\* started is loading while another caller of get_model waits for the lock.
C26_Witness ==
  \E k \in Loaders :
    /\ k > 2 /\ ld_kind[k] = "final" /\ ld_pc[k] = "loading"
    /\ \/ \E k2 \in Loaders \ {k} : ld_pc[k2] = "acquire"
       \/ \E j \in FinIds : fin_pc[j] = "gm_acquire"

\* C27: no preview loop thread holds or waits for the final model's lock,
\* and no finalize task holds the preview model's lock.
C27_NoLockContention ==
  /\ model_lock.kind # "loop"
  /\ \A i \in Sessions : lp_pc[i] # "gm_acquire"
  /\ stream_lock.kind # "fin"

\* a step in which a model load ends, a model call ends, or a text is
\* handed to _send_text_input
SlowStep ==
  \/ model_loaded' # model_loaded \/ stream_loaded' # stream_loaded
  \/ \E i \in Sessions : lp_pc[i] = "model" /\ lp_pc'[i] # "model"
  \/ \E j \in FinIds : fin_outcome[j] = "none" /\ fin_outcome'[j] \in {"text", "empty", "raised"}
  \/ injected' # injected

\* C29: a step that loads a model, runs one or injects text is not a step
\* of the hotkey worker nor of Overlay._poll (their locals, the overlay's
\* fields and the head of the queue stay as they are), and it is not a
\* critical section of the Recorder's lock.
C29_SlowOffUiAndHotkey ==
  [][SlowStep =>
       /\ UNCHANGED <<hkv, uiv>>
       /\ Len(queue') >= Len(queue)
       /\ ~RecorderSection]_vars

\* C29 witness: both models are loaded, a preview pass and a final pass have
\* run and the text has been injected, and the hotkey worker is polling and
\* the mainloop alive.
C29_Witness ==
  /\ model_loaded /\ stream_loaded
  /\ PubCount(MaxSessions) > 0
  /\ injected # << >>
  /\ hk_pc = "poll" /\ run_pc = "mainloop"

\* C30: once the key has been released with session s armed, the session
\* comes back to Idle: the buffer is disarmed, the session's loop thread has
\* left the loop, and the UI thread has applied a hide for the session.
C30_ReturnsToIdle ==
  \A s \in Sessions :
    (open = s /\ ~is_down) ~>
      (open # s /\ lp_pc[s] \in {"done", "dead"} /\ ui_rank[s] = 3)

\* C31: the hotkey worker leaves its poll only when the sample differs from
\* the previous one, and it arms, stops, spawns and enqueues only in the
\* branches it enters that way: a step taken at the poll changes neither
\* the armed flag, the frame list's identity, the loop's liveness flag, the
\* number of finalize tasks nor the queue.
C31_OnlyOnEdges ==
  [][/\ (hk_pc = "poll" /\ hk_pc' # "poll") => is_down' # was_down
     /\ (recording' # recording \/ gen' # gen \/ active' # active
           \/ nfin' # nfin \/ queue' # queue) => hk_pc # "poll"]_vars

\* C31 witness: the key is held in a session and the worker is back at its
\* poll, where every further sample equals the previous one, while blocks
\* arrive.
C31_Witness ==
  /\ hk_pc = "poll" /\ is_down /\ was_down
  /\ recording /\ active /\ Len(frames) >= 2

\* C32: whenever the overlay is in its hidden state (at the start, and
\* after the UI thread has applied a hide) its preview label holds no text.
C32_HideClearsPreview ==
  ov_state = "hidden" => ov_label.text = EmptyPreview

\* the positions of the quit commands on the queue
QuitCmds == {k \in DOMAIN queue : queue[k].cmd = "quit"}

\* C33: the step that takes a quit off the queue takes it from the head,
\* applies no other command (the overlay's fields stay as they are) and ends
\* the mainloop; from then on nothing is taken off the queue and the overlay
\* does not change: the poll is not armed again.
C33_QuitEndsConsumer ==
  [][/\ (QuitCmds # {} /\ (\A k \in DOMAIN queue' : queue'[k].cmd # "quit")) =>
          /\ Head(queue).cmd = "quit" /\ queue' = Tail(queue)
          /\ run_pc' = "exited"
          /\ UNCHANGED <<ov_state, ov_visible, ov_label, ui_rank>>
     /\ run_pc = "exited" =>
          /\ Len(queue') >= Len(queue)
          /\ UNCHANGED <<run_pc, ov_state, ov_visible, ov_label, ui_rank>>]_vars

\* C33 witness: the tray's Exit has been applied in the middle of a session:
\* the mainloop has ended while the overlay shows the recording state and a
\* command of the session waits behind where the quit was.
C33_Witness ==
  /\ run_pc = "exited" /\ QuitCmds = {}
  /\ ov_visible /\ ov_state = "rec"
  /\ \E k \in DOMAIN queue : queue[k].cmd \in {"processing", "hide"}

\* C34: a call of get_rms() that finds no frame on the list returns 0, and
\* the step that makes the call changes neither the list nor the armed flag.
C34_RmsZeroWhenEmpty ==
  /\ []((ui_raw.called /\ ui_raw.nframes = 0) => ui_raw.rms = 0)
  /\ [][ui_raw' # ui_raw => UNCHANGED <<frames, recording, gen>>]_vars

\* C34 witness: get_rms() has been called with the list empty, after the
\* session's start() and before its first block.
C34_Witness ==
  /\ ui_raw.called /\ ui_raw.nframes = 0 /\ ui_raw.gen = 1
  /\ recording /\ frames = << >>

\* C35: get_model() hands no None to transcribe: the handle a finalize task
\* gets is a loaded model.
C35_GetModelNeverNone ==
  \A j \in FinIds : fin_handle[j] # "None"

\* C36: the injection calls are made in the order in which the up-edges
\* spawned their finalize tasks.
C36_InjectionInSessionOrder ==
  \A k1, k2 \in DOMAIN injected :
    k1 < k2 => injected[k1].task < injected[k2].task

\* the blocks in an audio array
RunsOf(a) == {a[k] : k \in DOMAIN a}

\* C37: a finalize task that was handed audio ends an armed session, and no
\* block is in the audio of two finalize tasks.
C37_NoAudioFinalizedTwice ==
  /\ \A j \in FinIds : fin_audio[j] # EmptyArray => fin_sess[j] # 0
  /\ \A j1, j2 \in FinIds :
       j1 # j2 => RunsOf(fin_audio[j1]) \cap RunsOf(fin_audio[j2]) = {}

\* the locks thread t holds
Held(t) == {l \in LockNames : lk_owner[l] = t}

\* thread t is at a `with` whose lock another thread (or t itself) holds
Waiting(t) ==
  /\ lk_prog[t] # << >>
  /\ Head(lk_prog[t]).op = "acq"
  /\ lk_owner[Head(lk_prog[t]).lock] # "none"

\* the thread that holds the lock t waits for
WaitsFor(t) == lk_owner[Head(lk_prog[t]).lock]

RECURSIVE WaitChain(_, _)
\* following the waits from t for n steps ends at a thread that can go on
WaitChain(t, n) ==
  IF ~Waiting(t) THEN TRUE
  ELSE IF n = 0 THEN FALSE
  ELSE WaitChain(WaitsFor(t), n - 1)

\* C38: a thread takes a lock while it holds another only if the lock taken
\* is the log lock, and takes none while it holds the log lock; and no set
\* of threads wait for one another: from every waiting thread the chain of
\* holders ends at a thread that is not waiting.
C38_AcyclicLockOrder ==
  /\ [][\A t \in LkThreads : \A l \in LockNames :
          (lk_owner'[l] = t /\ lk_owner[l] # t) =>
             \/ Held(t) = {}
             \/ (l = "log" /\ "log" \notin Held(t))]_vars
  /\ [](\A t \in LkThreads : WaitChain(t, Cardinality(LkThreads)))

\* C38 witness: the hotkey worker is inside stop() with the Recorder's lock
\* and waits for the log lock, which the finalize task holds inside
\* get_model() under the final model's lock, while the preview loop waits
\* for the Recorder's lock and the tray for the final model's.
C38_Witness ==
  /\ lk_owner["rec"] = "hotkey" /\ Waiting("hotkey") /\ WaitsFor("hotkey") = "fin"
  /\ lk_owner["model"] = "fin"
  /\ Waiting("loop") /\ WaitsFor("loop") = "hotkey"
  /\ Waiting("tray") /\ WaitsFor("tray") = "fin"

\* every model-loading and model-switching thread is at rest: the tray is
\* in no _set_*_model call and every loader thread has ended
Quiesced ==
  /\ sw_pc = "idle"
  /\ \A k \in Loaders : ld_pc[k] \in {"none", "done", "dead"}

\* C39: once the switches and their reload threads are at rest, the final
\* handle, when a model is loaded, is the model named by the final_model
\* setting, and the stream handle likewise by the stream_model setting (a
\* load that raised leaves the handle None); and a call with the name the
\* setting already has changes no setting, no handle, and starts no thread.
C39_SettledOnSetting ==
  /\ [](Quiesced => /\ model_name \in {0, final_setting}
                    /\ stream_name \in {0, stream_setting}
                    /\ model_loaded = (model_name # 0)
                    /\ stream_loaded = (stream_name # 0))
  /\ [][(sw_call' # sw_call /\ sw_call'.same) =>
          UNCHANGED <<final_setting, stream_setting, model_name, stream_name,
                      model_loaded, stream_loaded, nld, ld_kind, ld_pc, sw_pc>>]_vars

\* C39 witness: the final model was switched to the second name while the
\* first loads ran, everything came to rest with the second name loaded
\* and the stream model loaded, and the menu item of the second name was
\* then clicked again.
C39_Witness ==
  /\ Quiesced /\ nld = 3 /\ ld_kind[3] = "final" /\ ld_pc[3] = "done"
  /\ final_setting = 2 /\ model_name = 2 /\ model_loaded
  /\ stream_name = stream_setting /\ stream_loaded
  /\ sw_call = [slot |-> "final", name |-> 2, same |-> TRUE]

====
